---- MODULE Spec2Model ----
(***************************************************************************)
(* Build orchestration of the chat build bot: the MessageCreate handler    *)
(* of index.js (two revisions of it: the one with the in-line fuzzy branch *)
(* search, "v2", and the one with intents and services/branch.js, "v3"),   *)
(* the process-wide flag isBuilding, the script file apps.sh and the git   *)
(* and build processes the handler starts.                                 *)
(*                                                                         *)
(* A handler invocation is an async function: it runs without interruption *)
(* from one await to the next, and other invocations run while it awaits.  *)
(* Each action below is one such segment: it is enabled when the awaited   *)
(* call of h[r].pc settles, and it runs the code up to the next await.     *)
(***************************************************************************)
EXTENDS Integers, Sequences, FiniteSets, TLC

\* Number of handler invocations that may be in flight at the same time.
MaxHandlers == 2

\* Longest app list getLatestVersionForApps is called with.
MaxApps == 2

\* Most lines of a script the script functions are called with.
MaxLines == 3

\* Longest branch token the fuzzy search is run on by itself (the tokens of
\* the requests above are longer and are searched as well).
MaxTokenLen == 3

Handlers == 1..MaxHandlers

(***************************************************************************)
(* Text. A string is a sequence of one-character strings.                  *)
(***************************************************************************)
Origin == <<"o","r","i","g","i","n","/">>
bMain == <<"m","a","i","n">>
bDev == <<"d","e","v","e","l","o","p">>
bDark1 == <<"f","e","a","t","u","r","e","/","d","a","r","k","_","m","o","d","e">>
bDark2 == <<"r","e","l","e","a","s","e","/","d","a","r","k","-","m","o","d","e","-","f","i","x">>

\* The branches of the remote, and the lines `git branch -r` prints for them.
RemoteBranches == <<bMain, bDev, bDark1, bDark2>>

RemoteSet == {RemoteBranches[i] : i \in 1..Len(RemoteBranches)}

GitBranchR ==
    <<(<<" "," ">> \o Origin \o <<"H","E","A","D"," ","-",">"," ">> \o Origin \o bMain)>>
    \o [i \in 1..Len(RemoteBranches) |-> <<" "," ">> \o Origin \o RemoteBranches[i]]

\* The branch tokens the classifier may return ("" is: no branch given).
NoBranch == <<>>
tDarkMode == <<"d","a","r","k"," ","m","o","d","e">>
tDev == <<"D","e","v">>
tXyz == <<"x","y","z">>

Lower(c) ==
    CASE c = "D" -> "d"
      [] c = "H" -> "h"
      [] c = "E" -> "e"
      [] c = "A" -> "a"
      [] OTHER -> c

IsSpace(c) == c = " "

\* s.includes(p) on lower-cased text: what `grep -i "p"` decides for a line s
\* (p holds no character that is special in a basic regular expression).
ContainsIgnoreCase(s, p) ==
    \E i \in 0..(Len(s) - Len(p)) :
        \A j \in 1..Len(p) : Lower(s[i + j]) = Lower(p[j])

\* First index at which p occurs in s (case-sensitive), 0 if none.
IndexOf(s, p) ==
    LET hits == {i \in 1..(Len(s) - Len(p) + 1) :
                    \A j \in 1..Len(p) : s[i + j - 1] = p[j]}
    IN  IF hits = {} THEN 0 ELSE CHOOSE i \in hits : \A k \in hits : i <= k

\* sed 's|origin/||' : the first occurrence on the line is removed.
SedStripOrigin(s) ==
    LET i == IndexOf(s, Origin)
    IN  IF i = 0 THEN s
        ELSE SubSeq(s, 1, i - 1) \o SubSeq(s, i + Len(Origin), Len(s))

\* s.trim().split(/\s+/).filter(Boolean), which is also what xargs joins.
RECURSIVE SplitWs(_)
SplitWs(s) ==
    IF s = <<>> THEN <<>>
    ELSE IF IsSpace(Head(s)) THEN SplitWs(Tail(s))
    ELSE LET ends == {i \in 1..Len(s) : IsSpace(s[i])}
             n == IF ends = {} THEN Len(s) + 1
                  ELSE CHOOSE i \in ends : \A k \in ends : i <= k
         IN  <<SubSeq(s, 1, n - 1)>> \o SplitWs(SubSeq(s, n, Len(s)))

\* s.replace(/\s+/g, rep)
RECURSIVE ReplaceWs(_, _)
ReplaceWs(s, rep) ==
    IF s = <<>> THEN <<>>
    ELSE IF IsSpace(Head(s))
         THEN IF Len(s) > 1 /\ IsSpace(s[2]) THEN ReplaceWs(Tail(s), rep)
              ELSE rep \o ReplaceWs(Tail(s), rep)
    ELSE <<Head(s)>> \o ReplaceWs(Tail(s), rep)

\* [...new Set(xs)] : the first occurrence of each element, in order.
RECURSIVE Dedupe(_)
Dedupe(xs) ==
    IF xs = <<>> THEN <<>>
    ELSE LET front == Dedupe(SubSeq(xs, 1, Len(xs) - 1))
             last == xs[Len(xs)]
         IN  IF \E i \in 1..Len(front) : front[i] = last THEN front
             ELSE Append(front, last)

RECURSIVE Flatten(_)
Flatten(xss) == IF xss = <<>> THEN <<>> ELSE Head(xss) \o Flatten(Tail(xss))

\* The search patterns of the fuzzy branch search.
Patterns(branch) ==
    Dedupe(<<branch, ReplaceWs(branch, <<"_">>), ReplaceWs(branch, <<"-">>),
             ReplaceWs(branch, <<>>)>>)

\* git branch -r | grep -i "pattern" | sed 's|origin/||' | xargs, then split.
RECURSIVE GrepLines(_, _)
GrepLines(lines, pattern) ==
    IF lines = <<>> THEN <<>>
    ELSE (IF ContainsIgnoreCase(Head(lines), pattern)
          THEN <<SedStripOrigin(Head(lines))>> ELSE <<>>)
         \o GrepLines(Tail(lines), pattern)

SearchBranches(pattern) ==
    Flatten([i \in 1..Len(GrepLines(GitBranchR, pattern)) |->
                SplitWs(GrepLines(GitBranchR, pattern)[i])])

(***************************************************************************)
(* Version text (store-version.js).                                        *)
(***************************************************************************)
Digits == <<"0","1","2","3","4","5","6","7","8","9">>

DigitVal(c) == CHOOSE d \in 0..9 : Digits[d + 1] = c

\* Number(s) of a string of decimal digits; Number("") is 0.
RECURSIVE Number(_)
Number(s) ==
    IF s = <<>> THEN 0
    ELSE Number(SubSeq(s, 1, Len(s) - 1)) * 10 + DigitVal(s[Len(s)])

\* String(n) of a non-negative integer.
RECURSIVE String(_)
String(n) ==
    IF n < 10 THEN <<Digits[n + 1]>>
    ELSE String(n \div 10) \o <<Digits[(n % 10) + 1]>>

\* s.split(".")
RECURSIVE Split(_)
Split(s) ==
    LET i == IndexOf(s, <<".">>)
    IN  IF i = 0 THEN <<s>>
        ELSE <<SubSeq(s, 1, i - 1)>> \o Split(SubSeq(s, i + 1, Len(s)))

\* parts.join(".")
RECURSIVE Join(_)
Join(parts) ==
    IF Len(parts) = 0 THEN <<>>
    ELSE IF Len(parts) = 1 THEN parts[1]
    ELSE parts[1] \o <<".">> \o Join(Tail(parts))

\* (pa[i] || 0) for the 1-based index i
OrZero(pa, i) == IF i <= Len(pa) THEN pa[i] ELSE 0

Max2(x, y) == IF x >= y THEN x ELSE y

\* for (let i = ...; i < Math.max(pa.length, pb.length); i++) { diff ... }
RECURSIVE CompareFrom(_, _, _, _)
CompareFrom(pa, pb, i, n) ==
    IF i > n THEN 0
    ELSE LET diff == OrZero(pa, i) - OrZero(pb, i)
         IN  IF diff # 0 THEN diff ELSE CompareFrom(pa, pb, i + 1, n)

compareSemverShortest(a, b) ==
    LET pa == [i \in 1..Len(Split(a)) |-> Number(Split(a)[i])]
        pb == [i \in 1..Len(Split(b)) |-> Number(Split(b)[i])]
    IN  CompareFrom(pa, pb, 1, IF Len(pa) <= Len(pb) THEN Len(pa) ELSE Len(pb))

compareSemver(a, b) ==
    LET pa == [i \in 1..Len(Split(a)) |-> Number(Split(a)[i])]
        pb == [i \in 1..Len(Split(b)) |-> Number(Split(b)[i])]
    IN  CompareFrom(pa, pb, 1, Max2(Len(pa), Len(pb)))


\* parseInt(s, 10) of a string of decimal digits.
parseInt(s) == Number(s)

\* A version name that is null (an empty name is falsy as well).
Null == <<>>

incrementVersionUnguarded(versionName, versionCode) ==
    LET parts == Split(versionName)
        n == Len(parts)
    IN  [versionName |-> IF n >= 3
                         THEN Join([parts EXCEPT ![n] = String(parseInt(parts[n]) + 1)])
                         ELSE versionName,
         buildNumber |-> versionCode + 1]

\* incrementVersion(versionName, versionCode)
incrementVersion(versionName, versionCode) ==
    LET parts == Split(versionName)
        n == Len(parts)
        newVersion ==
            IF versionName # Null /\ n >= 3
            THEN Join([parts EXCEPT ![n] = String(parseInt(parts[n]) + 1)])
            ELSE <<"1", ".", "0", ".", "1">>
        newBuild == IF versionCode > 0 THEN versionCode + 1 ELSE 2
    IN  [versionName |-> newVersion, buildNumber |-> newBuild]

\* A lookup that ended with null.
NoRecord == [found |-> FALSE, versionName |-> Null, versionCode |-> 0]

RECURSIVE PickOneRecord(_, _, _, _)
PickOneRecord(results, i, bestVersionName, bestVersionCode) ==
    IF i > Len(results)
    THEN [bestVersionName |-> bestVersionName, bestVersionCode |-> bestVersionCode]
    ELSE IF ~results[i].found \/ results[i].versionCode <= bestVersionCode
    THEN PickOneRecord(results, i + 1, bestVersionName, bestVersionCode)
    ELSE PickOneRecord(results, i + 1, results[i].versionName, results[i].versionCode)

RECURSIVE PickLastCode(_, _, _, _)
PickLastCode(results, i, bestVersionName, bestVersionCode) ==
    IF i > Len(results)
    THEN [bestVersionName |-> bestVersionName, bestVersionCode |-> bestVersionCode]
    ELSE IF ~results[i].found
    THEN PickLastCode(results, i + 1, bestVersionName, bestVersionCode)
    ELSE LET info == results[i]
         IN  PickLastCode(results, i + 1,
                 IF /\ info.versionName # Null
                    /\ (bestVersionName = Null
                          \/ compareSemver(info.versionName, bestVersionName) > 0)
                 THEN info.versionName ELSE bestVersionName,
                 info.versionCode)

\* for (const r of results) { ... } : the best code and the best name so far
\* after the results from index i on.
RECURSIVE PickHighest(_, _, _, _)
PickHighest(results, i, bestVersionName, bestVersionCode) ==
    IF i > Len(results)
    THEN [bestVersionName |-> bestVersionName, bestVersionCode |-> bestVersionCode]
    ELSE IF ~results[i].found
    THEN PickHighest(results, i + 1, bestVersionName, bestVersionCode)
    ELSE LET info == results[i]
         IN  PickHighest(results, i + 1,
                 IF /\ info.versionName # Null
                    /\ (bestVersionName = Null
                          \/ compareSemver(info.versionName, bestVersionName) > 0)
                 THEN info.versionName ELSE bestVersionName,
                 IF info.versionCode > bestVersionCode
                 THEN info.versionCode ELSE bestVersionCode)

NextVersionLoggedDefault(best) ==
    IF best.bestVersionName = Null /\ best.bestVersionCode = 0
    THEN [versionName |-> <<"1", ".", "0", ".", "0">>, buildNumber |-> 1]
    ELSE incrementVersion(best.bestVersionName, best.bestVersionCode)

\* if (!bestVersionName && bestVersionCode === 0) return { "1.0.1", 2 };
\* return incrementVersion(bestVersionName, bestVersionCode);
NextVersion(best) ==
    IF best.bestVersionName = Null /\ best.bestVersionCode = 0
    THEN [versionName |-> <<"1", ".", "0", ".", "1">>, buildNumber |-> 2]
    ELSE incrementVersion(best.bestVersionName, best.bestVersionCode)


(***************************************************************************)
(* Script text (store-version.js).                                         *)
(***************************************************************************)
\* \s of a regular expression, on the characters scripts are made of here.
IsWhitespace(c) == c \in {" ", "\n"}

kVersion == <<"V", "E", "R", "S", "I", "O", "N", "=">>

kBuildNumber == <<"B", "U", "I", "L", "D", "_", "N", "U", "M", "B", "E", "R", "=">>

\* Where /key\S+/ matches first in s: the least index at which key starts and
\* is followed by a character that is no whitespace; 0 if there is none.
FirstMatch(s, key) ==
    LET starts == {i \in 1..Len(s) :
                     /\ i + Len(key) <= Len(s)
                     /\ SubSeq(s, i, i + Len(key) - 1) = key
                     /\ ~IsWhitespace(s[i + Len(key)])}
    IN  IF starts = {} THEN 0 ELSE CHOOSE i \in starts : \A k \in starts : i <= k

\* \S+ is greedy: the last index of the run of non-whitespace from index from.
RunEnd(s, from) ==
    CHOOSE j \in from..Len(s) :
        /\ \A k \in from..j : ~IsWhitespace(s[k])
        /\ j = Len(s) \/ IsWhitespace(s[j + 1])

ReplaceKeyOnly(s, key, value) ==
    LET i == FirstMatch(s, key)
    IN  IF i = 0 THEN s
        ELSE SubSeq(s, 1, i - 1) \o key \o value \o SubSeq(s, i + Len(key), Len(s))

\* s.replace(/key\S+/, `key${value}`) : the first match only.
ReplaceFirst(s, key, value) ==
    LET i == FirstMatch(s, key)
    IN  IF i = 0 THEN s
        ELSE SubSeq(s, 1, i - 1) \o key \o value
             \o SubSeq(s, RunEnd(s, i + Len(key)) + 1, Len(s))

\* replaceVersionInScript(script, versionName, buildNumber)
replaceVersionInScript(script, versionName, buildNumber) ==
    ReplaceFirst(ReplaceFirst(script, kVersion, versionName),
                 kBuildNumber, String(buildNumber))

Quote == "\""

\* script.match(/"([^"]+)"/g), quotes removed: from the left, a quote, one or
\* more characters that are no quote, a quote; the search goes on behind it.
RECURSIVE QuotedNames(_)
QuotedNames(s) ==
    LET opens == {i \in 1..Len(s) : s[i] = Quote}
        i == CHOOSE x \in opens : \A y \in opens : x <= y
        closes == {x \in opens : x > i}
        j == CHOOSE x \in closes : \A y \in closes : x <= y
    IN  IF opens = {} THEN <<>>
        ELSE IF closes = {} THEN <<>>
        ELSE IF j = i + 1 THEN QuotedNames(SubSeq(s, i + 1, Len(s)))
        ELSE <<SubSeq(s, i + 1, j - 1)>> \o QuotedNames(SubSeq(s, j + 1, Len(s)))

\* parseAppNamesFromScript(script)
parseAppNamesFromScript(script) == QuotedNames(script)


(***************************************************************************)
(* What the store lookups read out of the stores' answers.                 *)
(***************************************************************************)
\* s.trim()
RECURSIVE Trim(_)
Trim(s) ==
    IF s = <<>> THEN s
    ELSE IF IsWhitespace(s[1]) THEN Trim(Tail(s))
    ELSE IF IsWhitespace(s[Len(s)]) THEN Trim(SubSeq(s, 1, Len(s) - 1))
    ELSE s

\* latest.name.match(/\((.+)\)/): from the first "(" that has a ")" two or
\* more places behind it to the last ")"; m[1].trim(), null without a match.
NameInParens(name) ==
    LET closes == {j \in 1..Len(name) : name[j] = ")"}
        opens == {i \in 1..Len(name) :
                     name[i] = "(" /\ \E j \in closes : j > i + 1}
        i == CHOOSE x \in opens : \A y \in opens : x <= y
        j == CHOOSE x \in closes : \A y \in closes : x >= y
    IN  IF opens = {} THEN Null ELSE Trim(SubSeq(name, i + 1, j - 1))

FirstCode(versionCodes) ==
    IF versionCodes = <<>> THEN 0 ELSE Number(versionCodes[1])

\* codes.length ? Math.max(...codes) : 0, codes = versionCodes.map(Number)
RECURSIVE HighestCode(_)
HighestCode(versionCodes) ==
    IF versionCodes = <<>> THEN 0
    ELSE Max2(Number(versionCodes[1]), HighestCode(Tail(versionCodes)))

\* { versionName, versionCode: highestCode, source: "google_play" }
AndroidRecord(latest) ==
    [found |-> TRUE,
     versionName |-> IF latest.name # Null THEN NameInParens(latest.name) ELSE Null,
     versionCode |-> HighestCode(latest.versionCodes)]

\* { versionName, versionCode: buildNumber, source: "testflight" }
IOSRecord(latestBuild) ==
    [found |-> TRUE,
     versionName |-> latestBuild.preReleaseVersion,
     versionCode |-> parseInt(latestBuild.version)]

(***************************************************************************)
(* State.                                                                  *)
(***************************************************************************)
VARIABLES
    rev,         \* the revision of index.js that runs: "v2" or "v3"
    isBuilding,  \* index.js: let isBuilding = false
    appsSh,      \* content of ${dir}/apps.sh: the script text last written
    h,           \* per handler invocation: the await it is at and its locals
    fn           \* the call of a function of store-version.js that is looked at
                 \* on its own: its arguments, its locals, its return value

vars == <<rev, isBuilding, appsSh, h, fn>>

\* No function is looked at on its own.
NoCall == [op |-> "none"]

\* The tokens of a request that gives no version order; main comes with the
\* request that orders the latest version.
BranchTokens == {NoBranch, tDarkMode, tDev, tXyz}

\* A handler invocation that has not read anything yet. script, command,
\* branch, useLatestVersion are the handler's locals of the same names;
\* rewritten: script went through replaceVersionInScript; out: the exit the
\* run took ("none" while undecided). The rest records what the run has done
\* so far: queried: the store it queried; wrote: it wrote apps.sh; checkouts:
\* the names it started a checkout+pull of; onBranch: the name whose
\* checkout+pull succeeded; built: it started the build command; acquired:
\* it set isBuilding to true.
Fresh ==
    [pc |-> "idle", script |-> "", command |-> "", branch |-> NoBranch,
     useLatestVersion |-> FALSE, rewritten |-> FALSE, out |-> "none",
     queried |-> "none", wrote |-> FALSE, checkouts |-> {}, onBranch |-> NoBranch,
     built |-> FALSE, acquired |-> FALSE, patterns |-> <<>>, candidates |-> <<>>]

\* What the classifier (geminiService.processMessage) may answer.
BaseResponse ==
    [intent |-> "build", message |-> TRUE, script |-> "quoted",
     command |-> "build.sh a", useLatestVersion |-> FALSE, branch |-> NoBranch,
     checkVersionApps |-> 0]

\* v3 answers with an intent; a token that names no remote branch (xyz) stands
\* for every such token, which checkoutBranch treats alike.
AiResponses ==
    {[BaseResponse EXCEPT !.intent = "none", !.message = FALSE, !.script = "",
                          !.command = ""]}
    \cup {[BaseResponse EXCEPT !.intent = "check_version", !.script = "",
                               !.command = "", !.checkVersionApps = n] : n \in {0, 2}}
    \cup {[BaseResponse EXCEPT !.message = FALSE]}
    \cup {[BaseResponse EXCEPT !.branch = b] : b \in {NoBranch, tXyz}}
    \cup {[BaseResponse EXCEPT !.useLatestVersion = TRUE, !.script = s] :
             s \in {"quoted", "unquoted", "nonString"}}
    \cup {[BaseResponse EXCEPT !.useLatestVersion = TRUE, !.command = "build.sh i",
                               !.branch = bMain]}

\* v2 reads no intent: a message that is no build request has empty fields.
AiResponsesV2 ==
    {[BaseResponse EXCEPT !.message = FALSE, !.script = "", !.command = ""]}
    \cup {[BaseResponse EXCEPT !.message = FALSE]}
    \cup {[BaseResponse EXCEPT !.branch = b] : b \in BranchTokens}
    \cup {[BaseResponse EXCEPT !.useLatestVersion = TRUE, !.script = s] :
             s \in {"quoted", "unquoted", "nonString"}}
    \cup {[BaseResponse EXCEPT !.useLatestVersion = TRUE, !.command = "build.sh i",
                               !.branch = bMain]}

Init ==
    /\ rev \in {"v2", "v3"}
    /\ isBuilding = FALSE
    /\ appsSh = [script |-> "initial", rewritten |-> FALSE]
    /\ h = [r \in Handlers |-> Fresh]
    /\ fn = NoCall

(***************************************************************************)
(* Pieces of the handler that several segments end with. loc is the        *)
(* handler's record as the segment has changed it so far.                  *)
(***************************************************************************)

\* The exit a run takes is the first one it decides on.
Decide(loc, o) == IF loc.out = "none" THEN o ELSE loc.out

\* The segment ends at an await: nothing shared is touched.
Await(r, loc) ==
    /\ h' = [h EXCEPT ![r] = loc]
    /\ UNCHANGED <<rev, isBuilding, appsSh, fn>>

\* The handler has returned: its locals are gone. What is kept of the run is
\* its exit and whether it wrote the file, started the build, set the flag.
Returned(loc) ==
    [Fresh EXCEPT !.pc = "done", !.out = loc.out, !.wrote = loc.wrote,
                  !.built = loc.built, !.acquired = loc.acquired]

FinallyNoReset(r, loc) ==
    /\ h' = [h EXCEPT ![r] = Returned(loc)]
    /\ UNCHANGED <<rev, isBuilding, appsSh, fn>>

\* } finally { isBuilding = false; } : every return inside the try, and the
\* end of the catch block, pass through it.
Finally(r, loc) ==
    /\ h' = [h EXCEPT ![r] = Returned(loc)]
    /\ isBuilding' = FALSE
    /\ UNCHANGED <<rev, appsSh, fn>>

\* The run is on a path that only sends a notice and returns: the code left
\* to run reads none of the locals.
Leaving(loc, pc, o) == [Returned(loc) EXCEPT !.pc = pc, !.out = Decide(loc, o)]

\* } catch (error) { ... await discordMessage.channel.send(fallback)
\* (the locals declared inside the try block are out of scope here).
OuterCatch(r, loc) == Await(r, Leaving(loc, "sendFallback", "Exception"))

VersionCatchFallsThrough(r, loc) ==
    Await(r, [loc EXCEPT !.pc = "sendVersion",
                         !.out = Decide(loc, "VersionLookupFailed")])

\* } catch (err) { await send("Lỗi khi lấy version"); return; } of the
\* useLatestVersion block.
VersionCatch(r, loc) == Await(r, Leaving(loc, "sendVerErr", "VersionLookupFailed"))

\* if (isBuilding) { send("please wait"); return; }  send(botResponse);
BusyCheck(r, loc) ==
    IF isBuilding
    THEN Await(r, Leaving(loc, "sendBusy", "RejectedBusy"))
    ELSE Await(r, [loc EXCEPT !.pc = "sendAck"])

AppNamesNeverEmpty(script) == FALSE

\* parseAppNamesFromScript(script).length === 0
AppNamesEmpty(script) == script = "unquoted"

\* command.includes("build.sh i") ? "ios" : "android"
Platform(command) == IF command = "build.sh i" THEN "ios" ELSE "android"

\* if (useLatestVersion) { try { parse; if none: send, return; send(...)
VersionBlock(r, loc) ==
    IF loc.script = "nonString" THEN VersionCatch(r, loc)
    ELSE IF AppNamesEmpty(loc.script)
    THEN Await(r, [loc EXCEPT !.pc = "sendNoApps", !.out = Decide(loc, "RejectedNoApps")])
    ELSE Await(r, [loc EXCEPT !.pc = "sendFetching"])

\* The build intent: read the fields, return if one is missing, then the
\* useLatestVersion block and the busy check.
BuildRequested(r, ai) ==
    IF ~ai.message \/ ai.script = "" \/ ai.command = ""
    THEN Finally(r, [h[r] EXCEPT !.out = "Ignored"])
    ELSE LET loc == [h[r] EXCEPT !.script = ai.script, !.command = ai.command,
                                 !.branch = ai.branch,
                                 !.useLatestVersion = ai.useLatestVersion]
         IN  IF ai.useLatestVersion THEN VersionBlock(r, loc) ELSE BusyCheck(r, loc)

\* await executeCommand(`cd ${dir} && ./${command}`) is called.
StartBuild(r, loc) == Await(r, [loc EXCEPT !.pc = "executeCommand", !.built = TRUE])

\* A checkout+pull of name may succeed only if the remote has the branch.
CheckoutResults(name) == IF name \in RemoteSet THEN {TRUE, FALSE} ELSE {FALSE}

(***************************************************************************)
(* The handler, segment by segment.                                        *)
(***************************************************************************)

MessageCreateFilterInTry(r) ==
    /\ h[r].pc \in {"idle", "done"}
    /\ \E bot \in BOOLEAN, inTargetChannel \in BOOLEAN :
          IF bot \/ ~inTargetChannel
          THEN Finally(r, [Fresh EXCEPT !.out = "Filtered"])
          ELSE Await(r, [Fresh EXCEPT !.pc = IF rev = "v3" THEN "getRemoteBranches"
                                             ELSE "processMessage"])

\* A message arrives; a finished invocation's slot is taken by the new one.
\* if (discordMessage.author.bot) return; if (channelId !== TARGET_CHANNEL_ID)
\* return; both before the try block.
MessageCreate(r) ==
    /\ h[r].pc \in {"idle", "done"}
    /\ \E bot \in BOOLEAN, inTargetChannel \in BOOLEAN :
          IF bot \/ ~inTargetChannel
          THEN Await(r, [Fresh EXCEPT !.pc = "done", !.out = "Filtered"])
          ELSE Await(r, [Fresh EXCEPT !.pc = IF rev = "v3" THEN "getRemoteBranches"
                                             ELSE "processMessage"])

\* v3: getRemoteBranches(dir) has returned; the classifier is called.
RemoteBranchesListed(r) ==
    /\ h[r].pc = "getRemoteBranches"
    /\ Await(r, [h[r] EXCEPT !.pc = "processMessage"])

\* geminiService.processMessage has settled.
Classified(r) ==
    /\ h[r].pc = "processMessage"
    /\ \/ OuterCatch(r, h[r])
       \/ rev = "v2" /\ \E ai \in AiResponsesV2 : BuildRequested(r, ai)
       \/ rev = "v3" /\ \E ai \in AiResponses :
             IF ai.intent = "none" THEN Finally(r, [h[r] EXCEPT !.out = "Ignored"])
             ELSE IF ai.intent = "check_version"
             THEN IF ai.checkVersionApps = 0
                  THEN Await(r, [h[r] EXCEPT !.pc = "sendCvNoApps",
                                           !.out = "CheckVersionNoApps"])
                  ELSE Await(r, [h[r] EXCEPT !.pc = "getVersionsReport"])
             ELSE BuildRequested(r, ai)

\* check_version with no app: the notice was sent (or the send threw).
CvNoAppsSent(r) ==
    /\ h[r].pc = "sendCvNoApps"
    /\ \/ Finally(r, h[r])
       \/ OuterCatch(r, h[r])

\* getVersionsReport has returned (it never throws); the report is sent.
VersionsReported(r) ==
    /\ h[r].pc = "getVersionsReport"
    /\ Await(r, [h[r] EXCEPT !.pc = "sendReport", !.out = "VersionsReported"])

\* The report chunks were sent, or a send threw into the inner catch.
ReportSent(r) ==
    /\ h[r].pc = "sendReport"
    /\ \/ Finally(r, h[r])
       \/ Await(r, [h[r] EXCEPT !.pc = "sendCvErr"])

CvErrSent(r) ==
    /\ h[r].pc = "sendCvErr"
    /\ \/ Finally(r, h[r])
       \/ OuterCatch(r, h[r])

\* "no app in the script" was sent: return. The send is inside the try.
NoAppsSent(r) ==
    /\ h[r].pc = "sendNoApps"
    /\ \/ Finally(r, h[r])
       \/ VersionCatch(r, h[r])

\* "fetching ..." was sent: getLatestVersionForApps(appNames, dir, platform).
FetchingSent(r) ==
    /\ h[r].pc = "sendFetching"
    /\ \/ Await(r, [h[r] EXCEPT !.pc = "getLatestVersionForApps",
                                !.queried = Platform(h[r].command)])
       \/ VersionCatch(r, h[r])

VersionResolvedScriptKept(r) ==
    /\ h[r].pc = "getLatestVersionForApps"
    /\ Await(r, [h[r] EXCEPT !.pc = "sendVersion"])

\* The next version is known: replaceVersionInScript, send("next version").
VersionResolved(r) ==
    /\ h[r].pc = "getLatestVersionForApps"
    /\ Await(r, [h[r] EXCEPT !.pc = "sendVersion", !.rewritten = TRUE])

\* "next version" was sent: the busy check follows in the same segment.
VersionSent(r) ==
    /\ h[r].pc = "sendVersion"
    /\ \/ BusyCheck(r, h[r])
       \/ VersionCatch(r, h[r])

VerErrSent(r) ==
    /\ h[r].pc = "sendVerErr"
    /\ \/ Finally(r, h[r])
       \/ OuterCatch(r, h[r])

\* "please wait" was sent, or the send threw and was logged: return.
BusySent(r) ==
    /\ h[r].pc = "sendBusy"
    /\ Finally(r, h[r])

\* botResponse was sent: await replaceFileContent(`${dir}/apps.sh`, script).
AckSent(r) ==
    /\ h[r].pc = "sendAck"
    /\ \/ Await(r, [h[r] EXCEPT !.pc = "replaceFileContent"])
       \/ OuterCatch(r, h[r])

\* The file was written: isBuilding = true, then the branch step.
FileReplaced(r) ==
    /\ h[r].pc = "replaceFileContent"
    /\ \/ /\ appsSh' = [script |-> h[r].script, rewritten |-> h[r].rewritten]
          /\ isBuilding' = TRUE
          /\ h' = [h EXCEPT ![r] =
                     [h[r] EXCEPT !.wrote = TRUE, !.acquired = TRUE,
                                  !.pc = IF h[r].branch # NoBranch THEN "sendSwitching"
                                         ELSE IF rev = "v3" THEN "sendStarting"
                                         ELSE "executeCommand",
                                  !.built = (h[r].branch = NoBranch /\ rev = "v2")]]
          /\ UNCHANGED <<rev, fn>>
       \/ OuterCatch(r, h[r])


\* "switching to branch" was sent. v3: checkoutBranch(branch, dir);
\* v2: executeCommand(git fetch origin).
SwitchingSent(r) ==
    /\ h[r].pc = "sendSwitching"
    /\ \/ IF rev = "v3"
          THEN Await(r, [h[r] EXCEPT !.pc = "checkoutBranch",
                                     !.checkouts = @ \cup {h[r].branch}])
          ELSE Await(r, [h[r] EXCEPT !.pc = "gitFetch"])
       \/ OuterCatch(r, h[r])

BranchFailureIgnored(r, loc) == Await(r, [loc EXCEPT !.pc = "sendSwitched"])

\* if (!branchResult.success) { await send("branch error"); ...
BranchFailure(r, loc) == Await(r, Leaving(loc, "sendBranchErr", "BranchFailed"))

\* v3: checkoutBranch has returned {success, message}.
BranchCheckedOut(r) ==
    /\ h[r].pc = "checkoutBranch"
    /\ \E success \in CheckoutResults(h[r].branch) :
          IF ~success THEN BranchFailure(r, h[r])
          ELSE Await(r, [h[r] EXCEPT !.pc = "sendSwitched",
                                     !.onBranch = h[r].branch])

\* The branch error was sent: isBuilding = false; return;
BranchErrSent(r) ==
    /\ h[r].pc = "sendBranchErr"
    /\ \/ Finally(r, h[r])
       \/ OuterCatch(r, h[r])

\* v3: "switched to branch" was sent: send("starting the build").
SwitchedSent(r) ==
    /\ h[r].pc = "sendSwitched"
    /\ \/ Await(r, [h[r] EXCEPT !.pc = "sendStarting"])
       \/ OuterCatch(r, h[r])

\* v3: "starting the build" was sent: the build command is started.
StartingSent(r) ==
    /\ h[r].pc = "sendStarting"
    /\ \/ StartBuild(r, h[r])
       \/ OuterCatch(r, h[r])

BuildExitedRetries(r) ==
    /\ h[r].pc = "executeCommand"
    /\ \E exitCode \in {0, 1} :
          IF exitCode = 0 THEN Finally(r, [h[r] EXCEPT !.out = Decide(h[r], "Completed")])
          ELSE Await(r, [h[r] EXCEPT !.pc = "sendStarting"])

\* The build process has closed with an exit code; the handler ends.
BuildExited(r) ==
    /\ h[r].pc = "executeCommand"
    /\ \E exitCode \in {0, 1} :
          Finally(r, [h[r] EXCEPT !.out = Decide(h[r], IF exitCode = 0 THEN "Completed"
                                                       ELSE "ExecutionFailed")])

FallbackSentFlagKept(r) ==
    /\ h[r].pc = "sendFallback"
    /\ Await(r, Returned(h[r]))

\* The fallback reply was sent, or its send threw and was logged.
FallbackSent(r) ==
    /\ h[r].pc = "sendFallback"
    /\ Finally(r, h[r])

(***************************************************************************)
(* v2: the branch step with the fuzzy search.                              *)
(***************************************************************************)

\* git fetch origin has returned: the exact checkout is tried first.
Fetched(r) ==
    /\ h[r].pc = "gitFetch"
    /\ Await(r, [h[r] EXCEPT !.pc = "checkoutExact",
                             !.checkouts = @ \cup {h[r].branch}])

\* The exact checkout has returned; on failure the first pattern is searched.
ExactCheckedOut(r) ==
    /\ h[r].pc = "checkoutExact"
    /\ \E success \in CheckoutResults(h[r].branch) :
          IF success THEN StartBuild(r, [h[r] EXCEPT !.onBranch = h[r].branch])
          ELSE Await(r, [h[r] EXCEPT !.pc = "searchBranches",
                                     !.patterns = Patterns(h[r].branch),
                                     !.candidates = <<>>])

PickFirstCandidate(r, loc) ==
    IF Len(loc.candidates) >= 1
    THEN Await(r, [loc EXCEPT !.pc = "sendMatch"])
    ELSE BranchFailure(r, loc)

\* candidates = [...new Set(candidates)]; one: use it; several: ask the user;
\* none: checkoutResult is still the failed exact checkout.
CandidatesFound(r, loc) ==
    IF Len(loc.candidates) = 1
    THEN Await(r, [loc EXCEPT !.pc = "sendMatch"])
    ELSE IF Len(loc.candidates) > 1
    THEN Await(r, [loc EXCEPT !.pc = "sendAmbiguous",
                              !.out = Decide(loc, "BranchAmbiguous")])
    ELSE BranchFailure(r, loc)

\* One `git branch -r | grep -i` has returned: next pattern, or the verdict.
BranchesSearched(r) ==
    /\ h[r].pc = "searchBranches"
    /\ LET found == SearchBranches(Head(h[r].patterns))
           loc == [h[r] EXCEPT !.patterns = Tail(@), !.candidates = @ \o found]
       IN  IF loc.patterns # <<>> THEN Await(r, loc)
           ELSE CandidatesFound(r, [loc EXCEPT !.candidates = Dedupe(@)])

\* "using match" was sent: the single candidate is checked out.
MatchSent(r) ==
    /\ h[r].pc = "sendMatch"
    /\ \/ Await(r, [h[r] EXCEPT !.pc = "checkoutMatched",
                                !.checkouts = @ \cup {h[r].candidates[1]}])
       \/ OuterCatch(r, h[r])

MatchedCheckedOut(r) ==
    /\ h[r].pc = "checkoutMatched"
    /\ \E success \in CheckoutResults(h[r].candidates[1]) :
          IF success THEN StartBuild(r, [h[r] EXCEPT !.onBranch = h[r].candidates[1]])
          ELSE BranchFailure(r, h[r])

\* The candidate list was sent: isBuilding = false; return;
AmbiguousSent(r) ==
    /\ h[r].pc = "sendAmbiguous"
    /\ \/ Finally(r, h[r])
       \/ OuterCatch(r, h[r])

Next ==
    \E r \in Handlers :
        \/ MessageCreate(r)
        \/ RemoteBranchesListed(r)
        \/ Classified(r)
        \/ CvNoAppsSent(r)
        \/ VersionsReported(r)
        \/ ReportSent(r)
        \/ CvErrSent(r)
        \/ NoAppsSent(r)
        \/ FetchingSent(r)
        \/ VersionResolved(r)
        \/ VersionSent(r)
        \/ VerErrSent(r)
        \/ BusySent(r)
        \/ AckSent(r)
        \/ FileReplaced(r)
        \/ SwitchingSent(r)
        \/ BranchCheckedOut(r)
        \/ BranchErrSent(r)
        \/ SwitchedSent(r)
        \/ StartingSent(r)
        \/ BuildExited(r)
        \/ FallbackSent(r)
        \/ Fetched(r)
        \/ ExactCheckedOut(r)
        \/ BranchesSearched(r)
        \/ MatchSent(r)
        \/ MatchedCheckedOut(r)
        \/ AmbiguousSent(r)

Spec == Init /\ [][Next]_vars

(***************************************************************************)
(* The functions of store-version.js, each called on its own. The bot is   *)
(* at rest meanwhile.                                                      *)
(***************************************************************************)
AtRest ==
    /\ rev = "v3"
    /\ isBuilding = FALSE
    /\ appsSh = [script |-> "initial", rewritten |-> FALSE]
    /\ h = [r \in Handlers |-> Fresh]

\* The numbers a version string is written from, and the strings themselves:
\* one to four components.
Components == {0, 1, 2, 10}

VersionParts == UNION {[1..n -> Components] : n \in 1..4}

Format(cs) == Join([i \in 1..Len(cs) |-> String(cs[i])])

\* compareSemver(a, b) is called with two version strings.
InitSemver ==
    /\ AtRest
    /\ \E ca \in VersionParts, cb \in VersionParts :
          fn = [op |-> "compareSemver", pc |-> "call", ca |-> ca, cb |-> cb,
                a |-> Format(ca), b |-> Format(cb), ret |-> 0]

compareSemverReturns ==
    /\ fn.op = "compareSemver" /\ fn.pc = "call"
    /\ fn' = [fn EXCEPT !.pc = "return", !.ret = compareSemver(fn.a, fn.b)]
    /\ UNCHANGED <<rev, isBuilding, appsSh, h>>

NextSemver == compareSemverReturns

SpecSemver == InitSemver /\ [][NextSemver]_vars

\* What a store may hold for an app: { versionName, versionCode, source }.
StoreNames ==
    {Null, <<"1", ".", "2">>, <<"1", ".", "2", ".", "0">>, <<"1", ".", "2", ".", "3">>,
     <<"1", ".", "1", "0", ".", "0">>}

StoreCodes == {0, 10, 11}

StoreRecords ==
    {[found |-> TRUE, versionName |-> n, versionCode |-> c] :
        n \in StoreNames, c \in StoreCodes}

\* What the outside answers for one app: fetchAppConfig throws, or it returns
\* and the store lookup finds nothing, fails inside (caught there, null), or
\* returns a record.
AppAnswers ==
    {[cfg |-> "throws", store |-> "none", record |-> NoRecord]}
    \cup {[cfg |-> "ok", store |-> x, record |-> NoRecord] : x \in {"nothing", "fails"}}
    \cup {[cfg |-> "ok", store |-> "record", record |-> rec] : rec \in StoreRecords}

Commands == {"build.sh a", "build.sh i"}

\* getLatestVersionForApps(appNames, dir, platform) is called, the platform
\* being the one the handler derives from the command; every app's lookup
\* starts with fetchAppConfig.
InitVersion ==
    /\ AtRest
    /\ \E n \in 0..MaxApps, command \in Commands :
         \E answers \in [1..n -> AppAnswers] :
            fn = [op |-> "getLatestVersionForApps", pc |-> "allSettled",
                  command |-> command, platform |-> Platform(command),
                  answers |-> answers,
                  stage |-> [i \in 1..n |-> "fetchAppConfig"],
                  queried |-> [i \in 1..n |-> {}],
                  issued |-> [i \in 1..n |-> <<"fetchAppConfig">>],
                  results |-> [i \in 1..n |-> NoRecord],
                  bestVersionName |-> Null, bestVersionCode |-> 0,
                  ret |-> [versionName |-> Null, buildNumber |-> 0]]

AppThrewUncaught(i) == fn' = [fn EXCEPT !.pc = "threw"]

\* } catch (e) { console.error(...); return null; } of one app's lookup.
AppThrew(i) == fn' = [fn EXCEPT !.stage[i] = "settled", !.results[i] = NoRecord]

StoreAlwaysAndroid(platform) == "android"

\* if (platform === "ios") getIOSVersion(...) else getAndroidVersion(...)
StoreOf(platform) == IF platform = "ios" THEN "ios" ELSE "android"

\* fetchAppConfig(appName) has settled for app i.
ConfigFetched(i) ==
    /\ fn.op = "getLatestVersionForApps" /\ fn.pc = "allSettled"
    /\ fn.stage[i] = "fetchAppConfig"
    /\ IF fn.answers[i].cfg = "throws" THEN AppThrew(i)
       ELSE fn' = [fn EXCEPT !.stage[i] = "store",
                             !.queried[i] = @ \cup {StoreOf(fn.platform)},
                             !.issued[i] = Append(@, StoreOf(fn.platform))]
    /\ UNCHANGED <<rev, isBuilding, appsSh, h>>

\* The store lookup of app i has returned a record or null.
StoreAnswered(i) ==
    /\ fn.op = "getLatestVersionForApps" /\ fn.pc = "allSettled"
    /\ fn.stage[i] = "store"
    /\ fn' = [fn EXCEPT !.stage[i] = "settled", !.results[i] = fn.answers[i].record]
    /\ UNCHANGED <<rev, isBuilding, appsSh, h>>

\* await Promise.allSettled(...)
AllSettled(stage) == \A i \in 1..Len(stage) : stage[i] = "settled"

\* Every lookup has settled: the highest is picked and the next version returned.
VersionPicked ==
    /\ fn.op = "getLatestVersionForApps" /\ fn.pc = "allSettled"
    /\ AllSettled(fn.stage)
    /\ LET best == PickHighest(fn.results, 1, Null, 0)
       IN  fn' = [fn EXCEPT !.pc = "return",
                            !.bestVersionName = best.bestVersionName,
                            !.bestVersionCode = best.bestVersionCode,
                            !.ret = NextVersion(best)]
    /\ UNCHANGED <<rev, isBuilding, appsSh, h>>

NextVersionCall ==
    \/ \E i \in 1..Len(fn.stage) : ConfigFetched(i)
    \/ \E i \in 1..Len(fn.stage) : StoreAnswered(i)
    \/ VersionPicked

SpecVersion == InitVersion /\ [][NextVersionCall]_vars

(***************************************************************************)
(* The v3 handler with every external call (chat send, classifier, file    *)
(* write, checkout, build process) returning or failing in the end: an     *)
(* invocation that is at an await goes on. Messages arrive as they please. *)
(***************************************************************************)
InitLive == Init /\ rev = "v3"

\* Invocation r of the v3 handler is at an await and goes on in this step.
Continues(r) ==
    \/ RemoteBranchesListed(r)
    \/ Classified(r)
    \/ CvNoAppsSent(r)
    \/ VersionsReported(r)
    \/ ReportSent(r)
    \/ CvErrSent(r)
    \/ NoAppsSent(r)
    \/ FetchingSent(r)
    \/ VersionResolved(r)
    \/ VersionSent(r)
    \/ VerErrSent(r)
    \/ BusySent(r)
    \/ AckSent(r)
    \/ FileReplaced(r)
    \/ SwitchingSent(r)
    \/ BranchCheckedOut(r)
    \/ BranchErrSent(r)
    \/ SwitchedSent(r)
    \/ StartingSent(r)
    \/ BuildExited(r)
    \/ FallbackSent(r)

NextLive == \E r \in Handlers : MessageCreate(r) \/ Continues(r)

SpecLive == InitLive /\ [][NextLive]_vars /\ \A r \in Handlers : WF_vars(Continues(r))

(***************************************************************************)
(* A build request as a whole: the handler, whose version step is one      *)
(* await, or the version resolution that this await stands for, request    *)
(* by request.                                                             *)
(***************************************************************************)
InitRequest == Init \/ InitVersion

NextRequest ==
    \/ fn.op = "none" /\ Next
    \/ fn.op = "getLatestVersionForApps" /\ NextVersionCall

SpecRequest == InitRequest /\ [][NextRequest]_vars

(***************************************************************************)
(* replaceVersionInScript and parseAppNamesFromScript, each called on its  *)
(* own with a script of a few lines.                                       *)
(***************************************************************************)
\* The lines scripts are written from: the documented ones (VERSION=...,
\* BUILD_NUMBER=..., LIST_APP={, quoted app names, }) and, beside them, an
\* assignment without value, one to a longer name, and an empty quoted name.
LineText ==
    [version |-> <<"V", "E", "R", "S", "I", "O", "N", "=", "0", ".", "0", ".", "0">>,
     versionEmpty |-> <<"V", "E", "R", "S", "I", "O", "N", "=">>,
     appVersion |-> <<"A", "P", "P", "_", "V", "E", "R", "S", "I", "O", "N", "=", "3">>,
     build |-> <<"B", "U", "I", "L", "D", "_", "N", "U", "M", "B", "E", "R", "=", "0">>,
     listOpen |-> <<"L", "I", "S", "T", "_", "A", "P", "P", "=", "{">>,
     cdl |-> <<"\"", "c", "d", "l", "\"">>,
     asvab |-> <<"\"", "a", "s", "v", "a", "b", "\"">>,
     emptyName |-> <<"\"", "\"">>,
     listClose |-> <<"}">>]

LineNames == DOMAIN LineText

\* The lines joined by newlines.
RECURSIVE JoinLines(_)
JoinLines(texts) ==
    IF Len(texts) = 0 THEN <<>>
    ELSE IF Len(texts) = 1 THEN texts[1]
    ELSE texts[1] \o <<"\n">> \o JoinLines(Tail(texts))

ScriptOf(lines) == JoinLines([i \in 1..Len(lines) |-> LineText[lines[i]]])

ScriptsLines == UNION {[1..n -> LineNames] : n \in 0..MaxLines}

\* The versions getLatestVersionForApps returns for one app.
ResolvedVersions ==
    {NextVersion(PickHighest(<<rec>>, 1, Null, 0)) : rec \in StoreRecords \cup {NoRecord}}

InitScript ==
    /\ AtRest
    /\ \E lines \in ScriptsLines :
          \/ \E v \in ResolvedVersions :
                fn = [op |-> "replaceVersionInScript", pc |-> "call", lines |-> lines,
                      script |-> ScriptOf(lines), versionName |-> v.versionName,
                      buildNumber |-> v.buildNumber, once |-> <<>>, twice |-> <<>>]
          \/ fn = [op |-> "parseAppNamesFromScript", pc |-> "call", lines |-> lines,
                   script |-> ScriptOf(lines), appNames |-> <<>>]

\* script = replaceVersionInScript(script, versionName, buildNumber)
VersionReplaced ==
    /\ fn.op = "replaceVersionInScript" /\ fn.pc = "call"
    /\ fn' = [fn EXCEPT !.pc = "once",
                        !.once = replaceVersionInScript(fn.script, fn.versionName,
                                                        fn.buildNumber)]
    /\ UNCHANGED <<rev, isBuilding, appsSh, h>>

\* The function is applied to its own result, with the same values.
VersionReplacedAgain ==
    /\ fn.op = "replaceVersionInScript" /\ fn.pc = "once"
    /\ fn' = [fn EXCEPT !.pc = "twice",
                        !.twice = replaceVersionInScript(fn.once, fn.versionName,
                                                         fn.buildNumber)]
    /\ UNCHANGED <<rev, isBuilding, appsSh, h>>

\* const appNames = parseAppNamesFromScript(script)
AppNamesParsed ==
    /\ fn.op = "parseAppNamesFromScript" /\ fn.pc = "call"
    /\ fn' = [fn EXCEPT !.pc = "return", !.appNames = parseAppNamesFromScript(fn.script)]
    /\ UNCHANGED <<rev, isBuilding, appsSh, h>>

NextScript ==
    \/ VersionReplaced
    \/ VersionReplacedAgain
    \/ AppNamesParsed

SpecScript == InitScript /\ [][NextScript]_vars

(***************************************************************************)
(* The fuzzy branch search of the v2 handler on its own, from the failed   *)
(* exact checkout to the verdict, for every short token.                   *)
(***************************************************************************)
TokenChars == {"m", "a", "i", "n", "d", "e", "x", " "}

\* Tokens: trimmed, not empty.
SearchTokens ==
    {tDarkMode, tDev, tXyz}
    \cup {t \in UNION {[1..n -> TokenChars] : n \in 1..MaxTokenLen} :
             ~IsSpace(t[1]) /\ ~IsSpace(t[Len(t)])}

\* if (!checkoutResult.success) { const patterns = ...; let candidates = [];
InitSearch ==
    /\ AtRest
    /\ \E t \in SearchTokens :
          fn = [op |-> "branchSearch", pc |-> "searchBranches", branch |-> t,
                patterns |-> Patterns(t), candidates |-> <<>>,
                verdict |-> "none", matched |-> NoBranch]

\* The verdict of the search, as the handler draws it from candidates.
Verdict(call) ==
    IF Len(call.candidates) = 1
    THEN [call EXCEPT !.pc = "sendMatch", !.verdict = "FuzzyMatch",
                      !.matched = call.candidates[1]]
    ELSE IF Len(call.candidates) > 1
    THEN [call EXCEPT !.pc = "sendAmbiguous", !.verdict = "Ambiguous"]
    ELSE [call EXCEPT !.pc = "sendBranchErr", !.verdict = "NotFound"]

\* One `git branch -r | grep -i` has returned: next pattern, or the verdict.
PatternSearched ==
    /\ fn.op = "branchSearch" /\ fn.pc = "searchBranches"
    /\ LET found == SearchBranches(Head(fn.patterns))
           call == [fn EXCEPT !.patterns = Tail(@), !.candidates = @ \o found]
       IN  fn' = IF call.patterns # <<>> THEN call
                 ELSE Verdict([call EXCEPT !.candidates = Dedupe(@)])
    /\ UNCHANGED <<rev, isBuilding, appsSh, h>>

NextSearch == PatternSearched

SpecSearch == InitSearch /\ [][NextSearch]_vars

(***************************************************************************)
(* The two store lookups on their own, request by request: the credential  *)
(* file is there or not, and every request is answered or fails.           *)
(***************************************************************************)
\* releases[0] of the internal track: its name, as upload.py writes it
\* ("60 (1.1.0)") or otherwise, and its version codes.
ReleaseNames ==
    {Null,
     <<"1", "1", " ", "(", "1", ".", "2", ".", "3", ")">>,
     <<"1", ".", "2", ".", "3">>,
     <<"1", "0", " ", "(", " ", "1", ".", "2", ")">>,
     <<"(", "1", ")", "(", "2", ")">>}

ReleaseCodes == {<<>>, <<<<"1", "0">>>>, <<<<"1", "0">>, <<"1", "1">>>>,
                 <<<<"1", "1">>, <<"1", "0">>>>}

Releases == {[name |-> n, versionCodes |-> c] : n \in ReleaseNames, c \in ReleaseCodes}

NoRelease == [name |-> Null, versionCodes |-> <<>>]

\* track.releases: the newest release first, alone or followed by another
\* release, here one with a higher code and version.
OtherRelease ==
    [name |-> <<"9", "9", " ", "(", "9", ".", "9", ".", "9", ")">>,
     versionCodes |-> <<<<"9", "9">>>>]

Tracks == {<<latest>> : latest \in Releases}
          \cup {<<latest, OtherRelease>> : latest \in Releases}

\* builds.data[0] with the included preReleaseVersion, null without one.
Builds ==
    {[version |-> v, preReleaseVersion |-> n] :
        v \in {<<"1", "0">>, <<"1", "1">>},
        n \in {Null, <<"1", ".", "2", ".", "3">>}}

NoBuild == [version |-> <<>>, preReleaseVersion |-> Null]

\* How a try block is left while its finally block runs.
NoPending == [kind |-> "none", value |-> NoRecord]

InitStore ==
    /\ AtRest
    /\ \E c \in {"present", "missing"} :
          \/ fn = [op |-> "getAndroidVersion", pc |-> "existsSync", credentials |-> c,
                   token |-> "notAsked", created |-> "notAsked", track |-> "notAsked",
                   deleted |-> "notAsked", releases |-> <<>>, latest |-> NoRelease,
                   edit |-> "none",
                   requests |-> <<>>, pending |-> NoPending, ret |-> NoRecord]
          \/ fn = [op |-> "getIOSVersion", pc |-> "existsSync", credentials |-> c,
                   token |-> "notAsked", apps |-> "notAsked", builds |-> "notAsked",
                   latestBuild |-> NoBuild, requests |-> <<>>, ret |-> NoRecord]

\* if (!existsSync(serviceAccountPath)) { ...; return null; }
AndroidCredentialsChecked ==
    /\ fn.op = "getAndroidVersion" /\ fn.pc = "existsSync"
    /\ fn' = IF fn.credentials = "missing"
             THEN [fn EXCEPT !.pc = "return", !.ret = NoRecord]
             ELSE [fn EXCEPT !.pc = "token"]
    /\ UNCHANGED <<rev, isBuilding, appsSh, h>>

\* const token = await getGoogleAccessToken(serviceAccountPath): the file is
\* read and signed and the token request answered, or one of them fails.
AndroidTokenAnswered ==
    /\ fn.op = "getAndroidVersion" /\ fn.pc = "token"
    /\ \E answer \in {"token", "noToken", "rejects"} :
          fn' = [fn EXCEPT !.token = answer,
                           !.requests = Append(@, "token"),
                           !.pc = IF answer = "token" THEN "createEdit" ELSE "catch"]
    /\ UNCHANGED <<rev, isBuilding, appsSh, h>>

\* 1. Create an Edit; if (!edit.id) throw
AndroidEditAnswered ==
    /\ fn.op = "getAndroidVersion" /\ fn.pc = "createEdit"
    /\ \E answer \in {"id", "noId", "rejects"} :
          fn' = [fn EXCEPT !.created = answer,
                           !.requests = Append(@, "createEdit"),
                           !.edit = IF answer = "id" THEN "open" ELSE @,
                           !.pc = IF answer = "id" THEN "getTrack" ELSE "catch"]
    /\ UNCHANGED <<rev, isBuilding, appsSh, h>>

\* 2. Get internal track: the request fails, the track has no releases (or
\* the answer is an error object, which has none), or it has releases.
AndroidTrackAnswered ==
    /\ fn.op = "getAndroidVersion" /\ fn.pc = "getTrack"
    /\ \/ \E answer \in {"rejects", "noReleases"} :
             fn' = [fn EXCEPT !.track = answer,
                              !.requests = Append(@, "getTrack"),
                              !.pending = IF answer = "rejects"
                                          THEN [kind |-> "throw", value |-> NoRecord]
                                          ELSE [kind |-> "return", value |-> NoRecord],
                              !.pc = "finally"]
       \/ \E releases \in Tracks :
             fn' = [fn EXCEPT !.track = "releases", !.releases = releases,
                              !.latest = releases[1],
                              !.requests = Append(@, "getTrack"),
                              !.pending = [kind |-> "return",
                                           value |-> AndroidRecord(releases[1])],
                              !.pc = "finally"]
    /\ UNCHANGED <<rev, isBuilding, appsSh, h>>

DeleteFailureThrown(answer, pending) ==
    IF answer = "deleted" THEN pending ELSE [kind |-> "throw", value |-> NoRecord]

\* await fetch(..., { method: "DELETE", headers }).catch(() => { }): how the
\* try block was left stands, whatever the request's answer.
DeleteFailureSwallowed(answer, pending) == pending

\* finally { // Cleanup: delete the edit (don't commit) }: the request
\* deletes the edit, is answered with an error, or fails.
AndroidEditDeleted ==
    /\ fn.op = "getAndroidVersion" /\ fn.pc = "finally"
    /\ \E answer \in {"deleted", "error", "rejects"} :
          LET left == DeleteFailureSwallowed(answer, fn.pending)
          IN  fn' = [fn EXCEPT !.deleted = answer,
                               !.requests = Append(@, "deleteEdit"),
                               !.edit = IF answer = "deleted" THEN "deleted" ELSE @,
                               !.pending = NoPending,
                               !.ret = IF left.kind = "return" THEN left.value ELSE @,
                               !.pc = IF left.kind = "return" THEN "return" ELSE "catch"]
    /\ UNCHANGED <<rev, isBuilding, appsSh, h>>

\* catch (err) { console.error(...); return null; }
AndroidCaught ==
    /\ fn.op = "getAndroidVersion" /\ fn.pc = "catch"
    /\ fn' = [fn EXCEPT !.pc = "return", !.ret = NoRecord]
    /\ UNCHANGED <<rev, isBuilding, appsSh, h>>

\* if (!existsSync(join(apiKeyDir, "api_key_config.json"))) { ...; return null; }
IOSCredentialsChecked ==
    /\ fn.op = "getIOSVersion" /\ fn.pc = "existsSync"
    /\ fn' = IF fn.credentials = "missing"
             THEN [fn EXCEPT !.pc = "return", !.ret = NoRecord]
             ELSE [fn EXCEPT !.pc = "token"]
    /\ UNCHANGED <<rev, isBuilding, appsSh, h>>

TokenThrowsOutsideTry(answer) == IF answer = "token" THEN "apps" ELSE "raised"

\* try { const token = generateAppleJWT(apiKeyDir); ... } catch (err) { ... }
TokenThrowsInsideTry(answer) == IF answer = "token" THEN "apps" ELSE "catch"

\* generateAppleJWT: a token, or it throws (key_id or issuer_id missing, no
\* .p8 file).
IOSTokenGenerated ==
    /\ fn.op = "getIOSVersion" /\ fn.pc = "token"
    /\ \E answer \in {"token", "throws"} :
          fn' = [fn EXCEPT !.token = answer, !.pc = TokenThrowsInsideTry(answer)]
    /\ UNCHANGED <<rev, isBuilding, appsSh, h>>

\* 1. Resolve App ID from bundleId; if (!apps.data?.length) return null
IOSAppsAnswered ==
    /\ fn.op = "getIOSVersion" /\ fn.pc = "apps"
    /\ \E answer \in {"rejects", "noApp", "app"} :
          fn' = [fn EXCEPT !.apps = answer,
                           !.requests = Append(@, "apps"),
                           !.ret = NoRecord,
                           !.pc = CASE answer = "rejects" -> "catch"
                                    [] answer = "noApp" -> "return"
                                    [] OTHER -> "builds"]
    /\ UNCHANGED <<rev, isBuilding, appsSh, h>>

\* 2. Get latest TestFlight build; if (!builds.data?.length) return null
IOSBuildsAnswered ==
    /\ fn.op = "getIOSVersion" /\ fn.pc = "builds"
    /\ \/ \E answer \in {"rejects", "noBuilds"} :
             fn' = [fn EXCEPT !.builds = answer,
                              !.requests = Append(@, "builds"),
                              !.ret = NoRecord,
                              !.pc = IF answer = "rejects" THEN "catch" ELSE "return"]
       \/ \E latestBuild \in Builds :
             fn' = [fn EXCEPT !.builds = "builds", !.latestBuild = latestBuild,
                              !.requests = Append(@, "builds"),
                              !.ret = IOSRecord(latestBuild),
                              !.pc = "return"]
    /\ UNCHANGED <<rev, isBuilding, appsSh, h>>

\* catch (err) { console.error(...); return null; }
IOSCaught ==
    /\ fn.op = "getIOSVersion" /\ fn.pc = "catch"
    /\ fn' = [fn EXCEPT !.pc = "return", !.ret = NoRecord]
    /\ UNCHANGED <<rev, isBuilding, appsSh, h>>

NextStore ==
    \/ AndroidCredentialsChecked
    \/ AndroidTokenAnswered
    \/ AndroidEditAnswered
    \/ AndroidTrackAnswered
    \/ AndroidEditDeleted
    \/ AndroidCaught
    \/ IOSCredentialsChecked
    \/ IOSTokenGenerated
    \/ IOSAppsAnswered
    \/ IOSBuildsAnswered
    \/ IOSCaught

SpecStore == InitStore /\ [][NextStore]_vars

(***************************************************************************)
(* getVersionsReport on its own: per app fetchAppConfig, then the store    *)
(* lookups of the platform(s) asked for, one after the other; the apps run *)
(* side by side; the rows are built when all have settled.                 *)
(***************************************************************************)
Platforms == {"android", "ios", "all"}

\* platform === "android" || platform === "all"
checkAndroid(platform) == platform \in {"android", "all"}

\* platform === "ios" || platform === "all"
checkIOS(platform) == platform \in {"ios", "all"}

\* What a store lookup may return to the report: null, a record, or a record
\* without version name (a release name without "(...)", a build without
\* preReleaseVersion).
ReportRecords ==
    {NoRecord,
     [found |-> TRUE, versionName |-> <<"1", ".", "2", ".", "3">>, versionCode |-> 10],
     [found |-> TRUE, versionName |-> Null, versionCode |-> 11]}

\* What the outside answers for one app; a store that is not asked has no
\* answer.
ReportAnswers(platform) ==
    {[cfg |-> "throws", android |-> NoRecord, ios |-> NoRecord]}
    \cup {[cfg |-> "ok", android |-> a, ios |-> i] :
             a \in IF checkAndroid(platform) THEN ReportRecords ELSE {NoRecord},
             i \in IF checkIOS(platform) THEN ReportRecords ELSE {NoRecord}}

\* What one app's lookup has got so far.
NoValue == [androidInfo |-> NoRecord, iosInfo |-> NoRecord, error |-> FALSE]

InitReport ==
    /\ AtRest
    /\ \E n \in 0..MaxApps, platform \in Platforms :
         \E answers \in [1..n -> ReportAnswers(platform)] :
            fn = [op |-> "getVersionsReport", pc |-> "allSettled",
                  platform |-> platform, answers |-> answers,
                  stage |-> [i \in 1..n |-> "fetchAppConfig"],
                  value |-> [i \in 1..n |-> NoValue],
                  rows |-> <<>>]

\* The stage after the one at which app i is.
StageAfter(stage, platform) ==
    CASE stage = "fetchAppConfig" /\ checkAndroid(platform) -> "getAndroidVersion"
      [] stage \in {"fetchAppConfig", "getAndroidVersion"} /\ checkIOS(platform)
            -> "getIOSVersion"
      [] OTHER -> "settled"

\* const cfg = await fetchAppConfig(appName) has settled for app i;
\* catch (e) { return { appName, androidInfo: null, iosInfo: null, error } }
ReportConfigFetched(i) ==
    /\ fn.op = "getVersionsReport" /\ fn.pc = "allSettled"
    /\ fn.stage[i] = "fetchAppConfig"
    /\ IF fn.answers[i].cfg = "throws"
       THEN fn' = [fn EXCEPT !.stage[i] = "settled", !.value[i].error = TRUE]
       ELSE fn' = [fn EXCEPT !.stage[i] = StageAfter(@, fn.platform)]
    /\ UNCHANGED <<rev, isBuilding, appsSh, h>>

\* androidInfo = await getAndroidVersion(...) has returned for app i.
ReportAndroidAnswered(i) ==
    /\ fn.op = "getVersionsReport" /\ fn.pc = "allSettled"
    /\ fn.stage[i] = "getAndroidVersion"
    /\ fn' = [fn EXCEPT !.stage[i] = StageAfter(@, fn.platform),
                        !.value[i].androidInfo = fn.answers[i].android]
    /\ UNCHANGED <<rev, isBuilding, appsSh, h>>

\* iosInfo = await getIOSVersion(...) has returned for app i.
ReportIOSAnswered(i) ==
    /\ fn.op = "getVersionsReport" /\ fn.pc = "allSettled"
    /\ fn.stage[i] = "getIOSVersion"
    /\ fn' = [fn EXCEPT !.stage[i] = StageAfter(@, fn.platform),
                        !.value[i].iosInfo = fn.answers[i].ios]
    /\ UNCHANGED <<rev, isBuilding, appsSh, h>>

\* A placeholder: `Android: —`
Placeholder(label) ==
    [label |-> label, shown |-> FALSE, versionName |-> Null, versionCode |-> 0]

\* info?.versionName ? `Android: \`${versionName}\` (${versionCode})` : `Android: —`
Part(label, info) ==
    IF info.found /\ info.versionName # Null
    THEN [label |-> label, shown |-> TRUE, versionName |-> info.versionName,
          versionCode |-> info.versionCode]
    ELSE Placeholder(label)

\* `❌ **${appName}** — Error`
ErrorRow(appName) == [appName |-> appName, error |-> TRUE, parts |-> <<>>]

\* The row of one fulfilled result: the error marker, or the parts joined.
Row(appName, value) ==
    IF value.error THEN ErrorRow(appName)
    ELSE [appName |-> appName, error |-> FALSE,
          parts |-> (IF checkAndroid(fn.platform)
                     THEN <<Part("Android", value.androidInfo)>> ELSE <<>>)
                    \o (IF checkIOS(fn.platform)
                        THEN <<Part("iOS", value.iosInfo)>> ELSE <<>>)]

\* Every app has settled: for (const r of results) rows.push(...); return
ReportBuilt ==
    /\ fn.op = "getVersionsReport" /\ fn.pc = "allSettled"
    /\ AllSettled(fn.stage)
    /\ fn' = [fn EXCEPT !.pc = "return",
                        !.rows = [i \in 1..Len(fn.stage) |-> Row(i, fn.value[i])]]
    /\ UNCHANGED <<rev, isBuilding, appsSh, h>>

NextReport ==
    \/ \E i \in 1..Len(fn.stage) : ReportConfigFetched(i)
    \/ \E i \in 1..Len(fn.stage) : ReportAndroidAnswered(i)
    \/ \E i \in 1..Len(fn.stage) : ReportIOSAnswered(i)
    \/ ReportBuilt

SpecReport == InitReport /\ [][NextReport]_vars

(***************************************************************************)
(* executeCommand and the two git operations built on it, each called on   *)
(* its own: the process closes with an exit code, or it cannot be spawned. *)
(***************************************************************************)
ExitCodes == {0, 1, 127, 128}

\* What a process may have written to stdout and stderr when it ends.
Stdouts ==
    {<<>>, <<"\n">>, <<"m", "a", "i", "n", "\n">>,
     <<"m", "a", "i", "n", "\n", " ", "d", "e", "v", "\n">>}

Stderrs == {<<>>, <<"f", "a", "t", "a", "l", "\n">>}

\* The message of a result: `✅ Command executed successfully: ...`,
\* `❌ Command failed with exit code: ...`, `❌ Failed to execute command: ...`
mExecuted == <<"e", "x", "e", "c", "u", "t", "e", "d">>

mFailed == <<"f", "a", "i", "l", "e", "d">>

mNotExecuted == <<"n", "o", "t", " ", "e", "x", "e", "c", "u", "t", "e", "d">>

\* `Switched to ${branch}`
mSwitched == <<"S", "w", "i", "t", "c", "h", "e", "d">>

NoResult ==
    [success |-> FALSE, stdout |-> <<>>, stderr |-> <<>>, message |-> <<>>, exitCode |-> 0]

\* What the git operations return: checkoutBranch { success, message },
\* getRemoteBranches a list.
NoReturn == [success |-> FALSE, message |-> <<>>, branches |-> <<>>]

InitCommand ==
    /\ AtRest
    /\ \E op \in {"executeCommand", "checkoutBranch", "getRemoteBranches"} :
          fn = [op |-> op, pc |-> "spawned", awaited |-> 1, event |-> "none",
                code |-> 0, result |-> NoResult, ret |-> NoReturn]

CloseRejectsOnFailure(code) == IF code = 0 THEN "resolved" ELSE "rejected"

\* childProcess.on("close", (code) => { if (code === 0) resolve({...})
\* else resolve({...}) })
CloseResolves(code) == "resolved"

\* The process has closed with an exit code.
ProcessClosed ==
    /\ fn.op \in {"executeCommand", "checkoutBranch", "getRemoteBranches"}
    /\ fn.pc = "spawned"
    /\ \E code \in ExitCodes, stdout \in Stdouts, stderr \in Stderrs :
          fn' = [fn EXCEPT !.pc = CloseResolves(code),
                           !.event = "close", !.code = code,
                           !.result = [success |-> (code = 0),
                                       stdout |-> Trim(stdout),
                                       stderr |-> Trim(stderr),
                                       message |-> IF code = 0 THEN mExecuted
                                                   ELSE mFailed,
                                       exitCode |-> code]]
    /\ UNCHANGED <<rev, isBuilding, appsSh, h>>

\* childProcess.on("error", (error) => { resolve({ success: false, ...,
\* exitCode: -1 }) }): the process could not be spawned.
ProcessErrored ==
    /\ fn.op \in {"executeCommand", "checkoutBranch", "getRemoteBranches"}
    /\ fn.pc = "spawned"
    /\ fn' = [fn EXCEPT !.pc = "resolved", !.event = "error", !.code = -1,
                        !.result = [success |-> FALSE, stdout |-> <<>>, stderr |-> <<>>,
                                    message |-> mNotExecuted,
                                    exitCode |-> -1]]
    /\ UNCHANGED <<rev, isBuilding, appsSh, h>>

\* checkoutBranch: return { success: result.success, message: result.success
\* ? `Switched to ${branch}` : result.stderr || result.message }
CheckoutBranchReturned ==
    /\ fn.op = "checkoutBranch" /\ fn.pc = "resolved"
    /\ fn' = [fn EXCEPT !.pc = "return",
                        !.ret = [success |-> fn.result.success,
                                 message |-> IF fn.result.success THEN mSwitched
                                             ELSE IF fn.result.stderr # <<>>
                                             THEN fn.result.stderr
                                             ELSE fn.result.message,
                                 branches |-> <<>>]]
    /\ UNCHANGED <<rev, isBuilding, appsSh, h>>

\* getRemoteBranches: await executeCommand(`... git fetch origin`) has
\* resolved; its result is not read, and the branches are listed.
FetchAwaited ==
    /\ fn.op = "getRemoteBranches" /\ fn.pc = "resolved" /\ fn.awaited = 1
    /\ fn' = [fn EXCEPT !.pc = "spawned", !.awaited = 2, !.event = "none", !.code = 0,
                        !.result = NoResult]
    /\ UNCHANGED <<rev, isBuilding, appsSh, h>>

\* s.split("\n")
RECURSIVE SplitLines(_)
SplitLines(s) ==
    LET i == IndexOf(s, <<"\n">>)
    IN  IF i = 0 THEN <<s>>
        ELSE <<SubSeq(s, 1, i - 1)>> \o SplitLines(SubSeq(s, i + 1, Len(s)))

\* result.stdout.split("\n").map((b) => b.trim()).filter(Boolean)
BranchLines(stdout) ==
    SelectSeq([i \in 1..Len(SplitLines(stdout)) |-> Trim(SplitLines(stdout)[i])],
              LAMBDA b : b # <<>>)

\* if (!result.success || !result.stdout) return []; return result.stdout...
Listed(result) ==
    IF ~result.success \/ result.stdout = <<>> THEN <<>> ELSE BranchLines(result.stdout)

\* getRemoteBranches: the listing command has resolved.
RemoteBranchesReturned ==
    /\ fn.op = "getRemoteBranches" /\ fn.pc = "resolved" /\ fn.awaited = 2
    /\ fn' = [fn EXCEPT !.pc = "return",
                        !.ret = [success |-> fn.result.success, message |-> <<>>,
                                 branches |-> Listed(fn.result)]]
    /\ UNCHANGED <<rev, isBuilding, appsSh, h>>

NextCommand ==
    \/ ProcessClosed
    \/ ProcessErrored
    \/ CheckoutBranchReturned
    \/ FetchAwaited
    \/ RemoteBranchesReturned

SpecCommand == InitCommand /\ [][NextCommand]_vars

(***************************************************************************)
(* fetchAppConfig on its own: the CMS answers with the config map, with a  *)
(* status that is not ok, or not at all.                                   *)
(***************************************************************************)
kEasypass == <<"c", "o", "m", ".", "e", "a", "s", "y", "p", "a", "s", "s", ".">>

kEdupass == <<"c", "o", "m", ".", "e", "d", "u", "p", "a", "s", "s", ".">>

\* brand.edupassAndroid.packageName as configured.
PackageNames ==
    {<<"c", "o", "m", ".", "e", "a", "s", "y", "p", "a", "s", "s", ".", "c", "d", "l">>,
     <<"c", "o", "m", ".", "e", "a", "s", "y", "p", "a", "s", "s", ".", "a", "s", "v", "a", "b">>,
     <<"c", "o", "m", ".", "e", "d", "u", "p", "a", "s", "s", ".", "c", "c", "n", "a">>,
     <<"o", "r", "g", ".", "a", "b", "c", ".", "c", "d", "l">>,
     <<"x", ".", "c", "o", "m", ".", "e", "a", "s", "y", "p", "a", "s", "s", ".", "a">>,
     <<"c", "o", "m", ".", "e", "a", "s", "y", "p", "a", "s", "s">>}

\* brand.bucket; Null: the entry has none.
Buckets == {<<"c", "c", "n", "a">>, <<"a", "s", "v", "a", "b">>, <<"c", "d", "l">>, <<"C", "C", "N", "A">>, Null}

\* configMap[appName]: no entry, an entry without edupassAndroid, or an entry
\* with a package name and a bucket.
NoBrand == [entry |-> "missing", packageName |-> Null, bucket |-> Null]

Brands ==
    {NoBrand, [NoBrand EXCEPT !.entry = "noAndroid"]}
    \cup {[entry |-> "android", packageName |-> p, bucket |-> b] :
             p \in PackageNames, b \in Buckets}

NoConfig == [androidPackageName |-> Null, iosBundleId |-> Null, bucket |-> Null]

InitConfig ==
    /\ AtRest
    /\ \E response \in {"ok", "notOk", "rejects"}, brand \in Brands :
          fn = [op |-> "fetchAppConfig", pc |-> "fetch", response |-> response,
                brand |-> brand, ret |-> NoConfig]

\* originalPkg.replace("com.easypass.", "com.edupass."): the first
\* occurrence, wherever it is.
ReplaceNamespace(originalPkg) ==
    LET i == IndexOf(originalPkg, kEasypass)
    IN  IF i = 0 THEN originalPkg
        ELSE SubSeq(originalPkg, 1, i - 1) \o kEdupass
             \o SubSeq(originalPkg, i + Len(kEasypass), Len(originalPkg))

AndroidPkgAlwaysRewritten(originalPkg, bucket) == ReplaceNamespace(originalPkg)

\* let androidPkg = originalPkg; if (bucket === "ccna" || bucket === "asvab")
\* androidPkg = originalPkg.replace(...)
AndroidPkg(originalPkg, bucket) ==
    IF bucket = <<"c", "c", "n", "a">> \/ bucket = <<"a", "s", "v", "a", "b">>
    THEN ReplaceNamespace(originalPkg)
    ELSE originalPkg

\* The config request has settled: if (!res.ok) throw; if
\* (!brand?.edupassAndroid) throw; return { androidPackageName, iosBundleId,
\* bucket }
ConfigAnswered ==
    /\ fn.op = "fetchAppConfig" /\ fn.pc = "fetch"
    /\ IF fn.response # "ok" \/ fn.brand.entry # "android"
       THEN fn' = [fn EXCEPT !.pc = "threw"]
       ELSE fn' = [fn EXCEPT !.pc = "return",
                             !.ret = [androidPackageName |->
                                         AndroidPkg(fn.brand.packageName, fn.brand.bucket),
                                      iosBundleId |-> fn.brand.packageName,
                                      bucket |-> fn.brand.bucket]]
    /\ UNCHANGED <<rev, isBuilding, appsSh, h>>

NextConfig == ConfigAnswered

SpecConfig == InitConfig /\ [][NextConfig]_vars

(***************************************************************************)
(* splitMessage (index.js).                                                *)
(***************************************************************************)
MaxTextLen == 6

MaxChunkLen == 3

\* The texts split here: letters and newlines.
Texts == UNION {[1..n -> {"a", "\n"}] : n \in 0..MaxTextLen}

InitSplit ==
    /\ AtRest
    /\ \E text \in Texts, maxLength \in 1..MaxChunkLen :
          fn = [op |-> "splitMessage", pc |-> "entry", text |-> text,
                maxLength |-> maxLength, chunks |-> <<>>, remaining |-> text]

\* remaining.lastIndexOf("\n", maxLength): the greatest index <= maxLength
\* (counted from 0) that holds a newline, -1 if there is none.
LastIndexOfNewline(remaining, maxLength) ==
    LET at == {i \in 0..maxLength : i < Len(remaining) /\ remaining[i + 1] = "\n"}
    IN  IF at = {} THEN -1 ELSE CHOOSE i \in at : \A k \in at : k <= i

SplitAtAnyNewline(remaining, maxLength) ==
    LET splitAt == LastIndexOfNewline(remaining, maxLength)
    IN  IF splitAt = -1 THEN maxLength ELSE splitAt

\* let splitAt = remaining.lastIndexOf("\n", maxLength);
\* if (splitAt === -1 || splitAt < maxLength / 2) splitAt = maxLength;
SplitAt(remaining, maxLength) ==
    LET splitAt == LastIndexOfNewline(remaining, maxLength)
    IN  IF splitAt = -1 \/ 2 * splitAt < maxLength THEN maxLength ELSE splitAt

\* s.slice(from)
SliceFrom(s, from) == SubSeq(s, from + 1, Len(s))

\* s.replace(/^\n/, "")
DropLeadingNewline(s) == IF s # <<>> /\ s[1] = "\n" THEN Tail(s) ELSE s

\* if (text.length <= maxLength) return [text]; otherwise the loop is entered.
SplitEntered ==
    /\ fn.op = "splitMessage" /\ fn.pc = "entry"
    /\ IF Len(fn.text) <= fn.maxLength
       THEN fn' = [fn EXCEPT !.pc = "return", !.chunks = <<fn.text>>]
       ELSE fn' = [fn EXCEPT !.pc = "while"]
    /\ UNCHANGED <<rev, isBuilding, appsSh, h>>

\* One evaluation of while (remaining.length > 0) and of the body.
SplitLoop ==
    /\ fn.op = "splitMessage" /\ fn.pc = "while"
    /\ IF Len(fn.remaining) = 0
       THEN fn' = [fn EXCEPT !.pc = "return"]
       ELSE IF Len(fn.remaining) <= fn.maxLength
       THEN fn' = [fn EXCEPT !.pc = "return", !.chunks = Append(@, fn.remaining)]
       ELSE LET splitAt == SplitAt(fn.remaining, fn.maxLength)
            IN  fn' = [fn EXCEPT !.chunks = Append(@, SubSeq(fn.remaining, 1, splitAt)),
                                 !.remaining = DropLeadingNewline(SliceFrom(@, splitAt))]
    /\ UNCHANGED <<rev, isBuilding, appsSh, h>>

NextSplit == SplitEntered \/ SplitLoop

\* The function runs to its end once called: nothing else is awaited.
SpecSplit == InitSplit /\ [][NextSplit]_vars /\ WF_vars(NextSplit)

(***************************************************************************)
(* Properties.                                                             *)
(***************************************************************************)

\* Run r leaves the handler in this step.
Returns(r) == h[r].pc # "done" /\ h'[r].pc = "done"

\* Run r evaluates `if (isBuilding)` in this step.
ChecksBusy(r) ==
    /\ h[r].pc \notin {"sendBusy", "sendAck"}
    /\ h'[r].pc \in {"sendBusy", "sendAck"}

\* A git checkout+pull started by the handler is running.
CheckingOut(r) == h[r].pc \in {"checkoutBranch", "checkoutExact", "checkoutMatched"}

Executing(r) == h[r].pc = "executeCommand"

NoSideEffect(r) ==
    /\ ~h[r].wrote
    /\ h[r].checkouts = {}
    /\ ~h[r].built
    /\ ~h[r].acquired

\* C1: single-flight: in every reachable state at most one build command
\* process started by the MessageCreate handler (v3) is executing.
C1_SingleFlight ==
    rev = "v3" => Cardinality({r \in Handlers : Executing(r)}) <= 1

\* C2: a build request that reaches the busy check (v3) while another run's
\* build command is executing is rejected as RejectedBusy, and a rejected run
\* has written no file and started no checkout and no build.
C2_SecondRequestRejected ==
    [][rev = "v3" => \A r \in Handlers :
          /\ (ChecksBusy(r) /\ \E q \in Handlers \ {r} : Executing(q))
                => h'[r].out = "RejectedBusy"
          /\ h'[r].out = "RejectedBusy" => ~h'[r].wrote /\ ~h'[r].built]_vars

\* C3: a run rejected as RejectedBusy touches no state: it has made no store
\* query before the busy check, and isBuilding is the same after the run has
\* returned as before (v3).
C3_RejectedTouchesNothing ==
    [][rev = "v3" => \A r \in Handlers :
          /\ (ChecksBusy(r) /\ h'[r].out = "RejectedBusy") => h[r].queried = "none"
          /\ (Returns(r) /\ h[r].out = "RejectedBusy") => isBuilding' = isBuilding]_vars

\* C4: while a build command or a branch checkout of a build run is running,
\* isBuilding is true (v3).
C4_LockHeldWhileBuilding ==
    rev = "v3" => \A r \in Handlers : (Executing(r) \/ CheckingOut(r)) => isBuilding

\* C5: when a run that acquired the lock returns, by whatever exit,
\* isBuilding is false.
C5_LockFreeOnReturn ==
    [][\A r \in Handlers : (Returns(r) /\ h'[r].acquired) => ~isBuilding']_vars

\* A run that acquired the lock has ended by an exception and the lock is free.
C5_Witness ==
    \E r \in Handlers :
        h[r].pc = "done" /\ h[r].acquired /\ h[r].out = "Exception" /\ ~isBuilding

\* C6: apps.sh is written only by a run that holds the lock, and never while
\* another run's build command is executing (v3).
C6_WriteUnderLock ==
    rev = "v3" => \A r \in Handlers :
        h[r].pc = "replaceFileContent"
           => /\ isBuilding /\ h[r].acquired
              /\ \A q \in Handlers \ {r} : ~Executing(q)

\* C7: with useLatestVersion set and no quoted app name in the script the run
\* ends as RejectedNoApps, and such a run has made no store query, has not
\* written the file, has started no checkout and no build, and has not
\* acquired the lock.
C7_NoAppsAbortsEarly ==
    \A r \in Handlers :
        /\ (h[r].useLatestVersion /\ h[r].script = "unquoted")
              => h[r].out = "RejectedNoApps" /\ h[r].pc = "sendNoApps"
        /\ h[r].out = "RejectedNoApps" => h[r].queried = "none" /\ NoSideEffect(r)

C7_Witness ==
    \E r \in Handlers : h[r].pc = "done" /\ h[r].out = "RejectedNoApps"

\* C8: a run whose useLatestVersion block threw ends as VersionLookupFailed
\* and has not acquired the lock, written the file, or started a checkout or
\* a build.
C8_VersionFailureAbortsEarly ==
    \A r \in Handlers :
        /\ h[r].pc = "sendVerErr" => h[r].out \in {"VersionLookupFailed", "RejectedNoApps"}
        /\ h[r].out = "VersionLookupFailed" => NoSideEffect(r)

C8_Witness ==
    \E r \in Handlers : h[r].pc = "done" /\ h[r].out = "VersionLookupFailed"

Sign(x) == IF x > 0 THEN 1 ELSE IF x < 0 THEN -1 ELSE 0

\* The sign of the lexicographic comparison of two component lists, an absent
\* trailing component counting as 0.
LexSign(ca, cb) ==
    LET pa == [i \in 1..4 |-> IF i <= Len(ca) THEN ca[i] ELSE 0]
        pb == [i \in 1..4 |-> IF i <= Len(cb) THEN cb[i] ELSE 0]
        differ == {i \in 1..4 : pa[i] # pb[i]}
        k == CHOOSE i \in differ : \A j \in differ : i <= j
    IN  IF differ = {} THEN 0 ELSE IF pa[k] > pb[k] THEN 1 ELSE -1

\* C13: for version strings of at most 4 non-negative integer components,
\* compareSemver(a, b) has the sign of the lexicographic componentwise
\* comparison with absent trailing components as 0, and the opposite sign of
\* compareSemver(b, a).
C13_CompareSemverOrder ==
    (fn.op = "compareSemver" /\ fn.pc = "return")
       => /\ Sign(fn.ret) = LexSign(fn.ca, fn.cb)
          /\ Sign(fn.ret) = -Sign(compareSemver(fn.b, fn.a))

\* compareSemver("1.2", "1.2.0") has returned 0.
C13_Witness ==
    /\ fn.op = "compareSemver" /\ fn.pc = "return"
    /\ fn.a = <<"1", ".", "2">> /\ fn.b = <<"1", ".", "2", ".", "0">>
    /\ fn.ret = 0

\* getLatestVersionForApps has returned.
VersionReturned == fn.op = "getLatestVersionForApps" /\ fn.pc = "return"

\* The orders the app list of the call could have been given in.
Orders(n) == {f \in [1..n -> 1..n] : \A i, j \in 1..n : f[i] = f[j] => i = j}

\* C14: the version getLatestVersionForApps returns is a function of the set
\* of store records returned: the app list in any other order (and the
\* lookups settling in any order) gives the same version name and build
\* number; the single record ("1.2.3", 10) gives ("1.2.4", 11).
C14_OrderIndependent ==
    VersionReturned =>
       /\ \A f \in Orders(Len(fn.results)) :
             NextVersion(PickHighest([i \in 1..Len(fn.results) |-> fn.results[f[i]]],
                                     1, Null, 0)) = fn.ret
       /\ (Len(fn.results) = 1 /\ fn.results[1].found
             /\ fn.results[1].versionName = <<"1", ".", "2", ".", "3">>
             /\ fn.results[1].versionCode = 10)
            => fn.ret = [versionName |-> <<"1", ".", "2", ".", "4">>, buildNumber |-> 11]

\* The store records the lookups of the call returned.
RecordsOf(results) == {results[i] : i \in {j \in 1..Len(results) : results[j].found}}

MaxCode(records) ==
    IF records = {} THEN 0
    ELSE CHOOSE c \in {x.versionCode : x \in records} :
            \A x \in records : x.versionCode <= c

\* C15 as stated: with at least one store record returned the build number is
\* the highest versionCode of the records plus one, and the bootstrap build
\* number 2 is used only when no record was returned.
C15_BuildNumberAsStated ==
    VersionReturned =>
        fn.ret.buildNumber =
            IF RecordsOf(fn.results) # {} THEN MaxCode(RecordsOf(fn.results)) + 1 ELSE 2

\* C15 as amended: when the highest versionCode of the returned records is
\* positive the build number is that code plus one; otherwise (no record, or
\* only records whose versionCode is 0) it is the bootstrap build number 2.
C15_BuildNumber ==
    VersionReturned =>
        fn.ret.buildNumber =
            IF MaxCode(RecordsOf(fn.results)) > 0
            THEN MaxCode(RecordsOf(fn.results)) + 1 ELSE 2

\* Two apps returned records with codes 11 and 10, in this order: build 12.
C15_Witness ==
    /\ VersionReturned /\ Len(fn.results) = 2
    /\ fn.results[1].found /\ fn.results[1].versionCode = 11
    /\ fn.results[2].found /\ fn.results[2].versionCode = 10
    /\ fn.ret.buildNumber = 12

\* The version names of the returned records, and the highest of them.
NamesOf(results) == {x.versionName : x \in RecordsOf(results)} \ {Null}

Highest(names) == {n \in names : \A m \in names : compareSemver(n, m) >= 0}

\* name with its last component one higher and the others as they are.
LastIncremented(name) ==
    LET cs == [i \in 1..Len(Split(name)) |-> Number(Split(name)[i])]
    IN  Format([cs EXCEPT ![Len(cs)] = @ + 1])

\* C16: when a returned record carries a version name, the version name
\* returned is the highest name with its last component incremented by one,
\* whatever the number of components; the default "1.0.1" is returned only
\* when no name was found.
C16_LastComponentIncremented ==
    VersionReturned =>
        IF NamesOf(fn.results) = {}
        THEN fn.ret.versionName = <<"1", ".", "0", ".", "1">>
        ELSE \E n \in Highest(NamesOf(fn.results)) :
                fn.ret.versionName = LastIncremented(n)

\* C17: when no app yields store data (empty app list, every fetchAppConfig
\* throws, or every store lookup ends with nothing) the call does not fail
\* and returns exactly versionName "1.0.1" and buildNumber 2.
C17_BootstrapVersion ==
    (/\ fn.op = "getLatestVersionForApps"
     /\ \A i \in 1..Len(fn.answers) : fn.answers[i].store # "record")
       => /\ fn.pc # "threw"
          /\ fn.pc = "return"
                => fn.ret = [versionName |-> <<"1", ".", "0", ".", "1">>,
                             buildNumber |-> 2]

\* One app's fetchAppConfig threw, the other's store lookup failed: 1.0.1 (2).
C17_Witness ==
    /\ VersionReturned /\ Len(fn.answers) = 2
    /\ fn.answers[1].cfg = "throws" /\ fn.answers[2].store = "fails"
    /\ fn.ret = [versionName |-> <<"1", ".", "0", ".", "1">>, buildNumber |-> 2]

\* C18: the version code used is the maximum versionCode over the returned
\* records and the version name used is a semver-maximal versionName over the
\* returned records that have one, each on its own: they may come from the
\* records of different apps.
C18_ComponentwiseMaximum ==
    VersionReturned =>
       /\ fn.bestVersionCode = MaxCode(RecordsOf(fn.results))
       /\ IF NamesOf(fn.results) = {} THEN fn.bestVersionName = Null
          ELSE fn.bestVersionName \in Highest(NamesOf(fn.results))

\* The highest code (11) comes from the first app, the highest name
\* ("1.10.0") from the second: the next version is 1.10.1 (12).
C18_Witness ==
    /\ VersionReturned /\ Len(fn.results) = 2
    /\ fn.results[1] = [found |-> TRUE, versionName |-> <<"1", ".", "2", ".", "3">>,
                        versionCode |-> 11]
    /\ fn.results[2] = [found |-> TRUE, versionName |-> <<"1", ".", "1", "0", ".", "0">>,
                        versionCode |-> 10]
    /\ fn.bestVersionCode = 11
    /\ fn.bestVersionName = <<"1", ".", "1", "0", ".", "0">>
    /\ fn.ret = [versionName |-> <<"1", ".", "1", "0", ".", "1">>, buildNumber |-> 12]

\* C19: whatever subset of the apps fails in fetchAppConfig or in the store
\* lookup, getLatestVersionForApps does not throw, returns only after every
\* app's lookup has settled, and the record of every other app is among the
\* results and counted in the best code and the best name.
C19_FanOutIsolation ==
    fn.op = "getLatestVersionForApps" =>
       /\ fn.pc # "threw"
       /\ fn.pc = "return" =>
             \A i \in 1..Len(fn.answers) :
                /\ fn.stage[i] = "settled"
                /\ fn.answers[i].store = "record" =>
                      /\ fn.results[i] = fn.answers[i].record
                      /\ fn.bestVersionCode >= fn.answers[i].record.versionCode
                      /\ fn.answers[i].record.versionName # Null =>
                            compareSemver(fn.bestVersionName,
                                          fn.answers[i].record.versionName) >= 0

\* The first app's fetchAppConfig threw; the record of the second, 1.2.3 (10),
\* decides the version returned.
C19_Witness ==
    /\ VersionReturned /\ Len(fn.answers) = 2
    /\ fn.answers[1].cfg = "throws"
    /\ fn.results[2] = [found |-> TRUE, versionName |-> <<"1", ".", "2", ".", "3">>,
                        versionCode |-> 10]
    /\ fn.ret = [versionName |-> <<"1", ".", "2", ".", "4">>, buildNumber |-> 11]

\* C20: in a build run with useLatestVersion the platform is iOS exactly when
\* the command is the iOS build ("build.sh i") and Android otherwise, and for
\* each app whose identity was resolved the store of that platform is queried
\* and the store of the other platform never is.
C20_OnlyThePlatformsStore ==
    fn.op = "getLatestVersionForApps" =>
       /\ fn.platform = "ios" <=> fn.command = "build.sh i"
       /\ fn.platform = "android" <=> fn.command # "build.sh i"
       /\ \A i \in 1..Len(fn.answers) :
             /\ fn.queried[i] \subseteq {fn.platform}
             /\ (fn.stage[i] # "fetchAppConfig" /\ fn.answers[i].cfg = "ok")
                   => fn.queried[i] = {fn.platform}

\* An iOS build: the call has returned with TestFlight queried for both apps.
C20_Witness ==
    /\ VersionReturned /\ fn.command = "build.sh i" /\ Len(fn.answers) = 2
    /\ \A i \in 1..2 : fn.queried[i] = {"ios"}

\* The variants of a user input, and the remote branches that contain one of
\* them as a case-insensitive substring.
Variants(input) ==
    {input, ReplaceWs(input, <<"_">>), ReplaceWs(input, <<"-">>), ReplaceWs(input, <<>>)}

Containing(input) ==
    {b \in RemoteSet : \E v \in Variants(input) : ContainsIgnoreCase(b, v)}

\* C11: for an input that equals no remote branch the candidates are the
\* remote branches that contain a variant of the input (original, whitespace
\* to underscore, to hyphen, removed) as a case-insensitive substring: one
\* candidate is FuzzyMatch of that branch, several are Ambiguous, none is
\* NotFound.
C11_FuzzyResolution ==
    (/\ fn.op = "branchSearch" /\ fn.verdict # "none"
     /\ fn.branch \notin RemoteSet)
       => /\ {fn.candidates[i] : i \in 1..Len(fn.candidates)} = Containing(fn.branch)
          /\ fn.verdict =
                IF Cardinality(Containing(fn.branch)) = 1 THEN "FuzzyMatch"
                ELSE IF Cardinality(Containing(fn.branch)) > 1 THEN "Ambiguous"
                ELSE "NotFound"
          /\ fn.verdict = "FuzzyMatch" => fn.matched \in Containing(fn.branch)

\* C12: when the branch of the request equals a remote branch name, that
\* branch is what the run checks out and builds on: no fuzzy search is made,
\* no other name is used and no ambiguity is reported, whatever other remote
\* branches contain the name.
C12_ExactMatchFirst ==
    \A r \in Handlers :
        h[r].branch \in RemoteSet
           => /\ h[r].pc \notin {"searchBranches", "sendMatch", "checkoutMatched",
                                  "sendAmbiguous"}
              /\ h[r].out # "BranchAmbiguous"
              /\ h[r].checkouts \subseteq {h[r].branch}
              /\ Executing(r) => h[r].onBranch = h[r].branch

FirstLine(lines, targets) ==
    LET at == {i \in 1..Len(lines) : lines[i] \in targets}
    IN  IF at = {} THEN 0 ELSE CHOOSE i \in at : \A k \in at : i <= k

\* The script of lines with the value of the first line among versionLines
\* set to versionName and that of the first BUILD_NUMBER= line to
\* buildNumber, and every other line as it is.
WithValues(lines, versionLines, versionName, buildNumber) ==
    JoinLines([i \in 1..Len(lines) |->
        IF i = FirstLine(lines, versionLines)
        THEN (IF lines[i] = "appVersion" THEN <<"A", "P", "P", "_">> ELSE <<>>)
             \o kVersion \o versionName
        ELSE IF i = FirstLine(lines, {"build"})
        THEN kBuildNumber \o String(buildNumber)
        ELSE LineText[lines[i]]])

\* C22: replaceVersionInScript changes only the value of the first assignment
\* to VERSION and the value of the first assignment to BUILD_NUMBER: every
\* other part of the script, the quoted app list and later assignments
\* included, is unchanged, and a script without these assignments is
\* returned as it is.
C22_OnlyTheFirstAssignments ==
    (fn.op = "replaceVersionInScript" /\ fn.pc = "once")
       => fn.once = WithValues(fn.lines, {"version", "versionEmpty"},
                               fn.versionName, fn.buildNumber)

\* The contents of the quoted lines that have one, in the order of the lines.
NamesQuoted(lines) ==
    LET named == SelectSeq(lines, LAMBDA l : l \in {"cdl", "asvab"})
    IN  [i \in 1..Len(named) |-> SubSeq(LineText[named[i]], 2, Len(LineText[named[i]]) - 1)]

\* C23: parseAppNamesFromScript returns, in their order, exactly the contents
\* of the double-quoted tokens of the script that are not empty, and the empty
\* sequence when there is none.
C23_QuotedNamesInOrder ==
    (fn.op = "parseAppNamesFromScript" /\ fn.pc = "return")
       => fn.appNames = NamesQuoted(fn.lines)

\* The call of a store lookup has returned to its caller.
LookupReturned(op) == fn.op = op /\ fn.pc = "return"

\* The number of requests of one kind the call has made.
Requested(kind) == Cardinality({i \in 1..Len(fn.requests) : fn.requests[i] = kind})

\* C24: in getAndroidVersion every edit that was created gets its delete
\* request before the call returns, whether the track had a release, had none
\* or could not be read; the edit is deleted unless that request itself fails,
\* it is never committed, and the result is the one the track read gave,
\* whatever the answer to the delete request.
C24_EditDeletedNeverCommitted ==
    (LookupReturned("getAndroidVersion") /\ fn.created = "id")
       => /\ Requested("deleteEdit") = 1
          /\ fn.deleted = "deleted" => fn.edit = "deleted"
          /\ Requested("commitEdit") = 0
          /\ fn.ret = IF fn.track = "releases" THEN AndroidRecord(fn.latest) ELSE NoRecord

\* A release was read, the delete request failed, and the release's version
\* is returned all the same.
C24_Witness ==
    /\ LookupReturned("getAndroidVersion")
    /\ fn.created = "id" /\ fn.track = "releases" /\ fn.deleted = "rejects"
    /\ fn.requests = <<"token", "createEdit", "getTrack", "deleteEdit">>
    /\ fn.ret = [found |-> TRUE, versionName |-> <<"1", ".", "2", ".", "3">>,
                 versionCode |-> 11]

\* C25: getAndroidVersion and getIOSVersion never raise to their caller, and
\* each returns null when the credential file is missing, when there is no
\* release, app or build, and when a request or the token fails.
C25_LookupsNeverRaise ==
    /\ fn.op \in {"getAndroidVersion", "getIOSVersion"} => fn.pc # "raised"
    /\ (LookupReturned("getAndroidVersion")
          /\ \/ fn.credentials = "missing"
             \/ fn.token \in {"noToken", "rejects"}
             \/ fn.created \in {"noId", "rejects"}
             \/ fn.track \in {"noReleases", "rejects"})
       => fn.ret = NoRecord
    /\ (LookupReturned("getIOSVersion")
          /\ \/ fn.credentials = "missing"
             \/ fn.token = "throws"
             \/ fn.apps \in {"noApp", "rejects"}
             \/ fn.builds \in {"noBuilds", "rejects"})
       => fn.ret = NoRecord

\* The key file is there, generating the token threw, and the iOS lookup
\* returned null.
C25_Witness ==
    /\ LookupReturned("getIOSVersion")
    /\ fn.credentials = "present" /\ fn.token = "throws"
    /\ fn.ret = NoRecord

\* A message that tells the user how the run ended is being sent by run r.
SendingStatus(loc) ==
    loc.pc \in {"sendBusy", "sendNoApps", "sendVerErr", "sendBranchErr",
                "sendAmbiguous", "sendFallback"}

\* C26: when the build command exits with a code other than 0 the run ends as
\* ExecutionFailed and this is reported to the user (with the captured
\* stderr), unlike a run that ends as Completed: the handler goes on to send
\* a status message.
C26_ExecutionFailureReported ==
    [][\A r \in Handlers :
          (Executing(r) /\ h'[r].out = "ExecutionFailed") => SendingStatus(h'[r])]_vars

TerminalOutcomes ==
    {"Completed", "RejectedBusy", "RejectedNoApps", "BranchAmbiguous", "BranchFailed",
     "VersionLookupFailed", "ExecutionFailed"}

\* C27: every run that ends with a terminal outcome ends by sending one
\* status message, and the lock the run had taken is already released when
\* that message is sent.
C27_OneStatusAfterRelease ==
    [][\A r \in Handlers :
          /\ (Returns(r) /\ h'[r].out \in TerminalOutcomes) => SendingStatus(h[r])
          /\ (SendingStatus(h'[r]) /\ h'[r].acquired /\ h'[r].out \in TerminalOutcomes)
                => ~isBuilding']_vars

\* What the claim has the report show of a lookup's answer: the version and
\* build as they are, the placeholder when there is no data.
PartOfData(label, info) ==
    IF info.found
    THEN [label |-> label, shown |-> TRUE, versionName |-> info.versionName,
          versionCode |-> info.versionCode]
    ELSE Placeholder(label)

\* C28: getVersionsReport returns exactly one row per requested app: the
\* error marker if fetchAppConfig failed for the app, otherwise one part per
\* requested platform (Android and iOS for "all") with the live version and
\* build as they are, or the placeholder when the platform has no data; an
\* app that failed takes no other app's row away, and the call does not throw.
C28_OneRowPerApp ==
    (fn.op = "getVersionsReport" /\ fn.pc = "return")
       => /\ Len(fn.rows) = Len(fn.answers)
          /\ \A i \in 1..Len(fn.answers) :
                fn.rows[i] =
                   IF fn.answers[i].cfg = "throws" THEN ErrorRow(i)
                   ELSE [appName |-> i, error |-> FALSE,
                         parts |->
                            (IF fn.platform \in {"android", "all"}
                             THEN <<PartOfData("Android", fn.answers[i].android)>>
                             ELSE <<>>)
                            \o (IF fn.platform \in {"ios", "all"}
                                THEN <<PartOfData("iOS", fn.answers[i].ios)>>
                                ELSE <<>>)]

CommandOps == {"executeCommand", "checkoutBranch", "getRemoteBranches"}

\* C29: executeCommand, checkoutBranch and getRemoteBranches report failure
\* as a value and never throw: executeCommand always resolves, with success
\* true exactly when the process closed with exit code 0 and false when it
\* could not be spawned; checkoutBranch always returns success and a message;
\* getRemoteBranches returns the empty list when listing the branches failed.
C29_FailureAsValue ==
    /\ fn.op \in CommandOps => fn.pc \in {"spawned", "resolved", "return"}
    /\ (fn.op \in CommandOps /\ fn.pc = "resolved")
          => fn.result.success = (fn.event = "close" /\ fn.code = 0)
    /\ (fn.op = "checkoutBranch" /\ fn.pc = "return")
          => /\ fn.ret.success = (fn.event = "close" /\ fn.code = 0)
             /\ fn.ret.message # <<>>
    /\ (fn.op = "getRemoteBranches" /\ fn.pc = "return"
          /\ (fn.event = "error" \/ fn.code # 0))
          => fn.ret.branches = <<>>

\* The pull of checkoutBranch failed with exit code 1 and a message on
\* stderr: checkoutBranch returned success false and that message.
C29_Witness ==
    /\ fn.op = "checkoutBranch" /\ fn.pc = "return"
    /\ fn.event = "close" /\ fn.code = 1
    /\ fn.ret.success = FALSE
    /\ fn.ret.message = <<"f", "a", "t", "a", "l">>

\* Run r starts the build command in this step.
StartsBuild(r) == ~Executing(r) /\ h'[r].pc = "executeCommand"

\* The number of requests of these kinds issued for app i in the version
\* resolution.
Issued(i, kinds) ==
    Cardinality({k \in 1..Len(fn.issued[i]) : fn.issued[i][k] \in kinds})

\* C30: there are no retries: for a build request the build command is
\* started at most once, whatever it exits with, and within one version
\* resolution fetchAppConfig and the store lookup are issued at most once for
\* each app, whatever fails.
C30_NoRetries ==
    [][/\ \A r \in Handlers :
             /\ StartsBuild(r) => ~h[r].built /\ h'[r].built
             /\ (h[r].built /\ ~h'[r].built) => h[r].pc = "done"
       /\ fn'.op = "getLatestVersionForApps"
             => \A i \in 1..Len(fn'.issued) :
                   /\ Issued(i, {"fetchAppConfig"})' <= 1
                   /\ Issued(i, {"android", "ios"})' <= 1]_vars

\* A version resolution has returned in which fetchAppConfig failed for the
\* first app and the store lookup for the second: each request went out once.
C30_Witness ==
    /\ fn.op = "getLatestVersionForApps" /\ fn.pc = "return"
    /\ Len(fn.answers) = 2
    /\ fn.answers[1].cfg = "throws"
    /\ fn.answers[2].store = "fails"
    /\ fn.issued = <<<<"fetchAppConfig">>, <<"fetchAppConfig", "android">>>>

\* The package name with its namespace com.easypass. exchanged for
\* com.edupass., the rest kept; a name without that namespace as it is.
InEdupass(originalPkg) ==
    LET at == {i \in 1..Len(originalPkg) :
                  /\ i + 11 <= Len(originalPkg)
                  /\ SubSeq(originalPkg, i, i + 11)
                        = <<"c", "o", "m", ".", "e", "a", "s", "y", "p", "a", "s", "s">>
                  /\ i + 12 <= Len(originalPkg) /\ originalPkg[i + 12] = "."}
        i == CHOOSE x \in at : \A y \in at : x <= y
    IN  IF at = {} THEN originalPkg
        ELSE SubSeq(originalPkg, 1, i - 1)
             \o <<"c", "o", "m", ".", "e", "d", "u", "p", "a", "s", "s", ".">>
             \o SubSeq(originalPkg, i + 13, Len(originalPkg))

\* C31: fetchAppConfig rewrites the Android package name's namespace
\* (com.easypass. to com.edupass.) exactly for the apps whose bucket is ccna or
\* asvab and leaves it as configured otherwise; the iOS bundle id is always
\* the package name as configured; a missing entry and a response that is
\* not ok are errors, never an identity.
C31_NamespaceRewrite ==
    /\ (fn.op = "fetchAppConfig" /\ fn.pc = "return")
          => /\ fn.response = "ok" /\ fn.brand.entry = "android"
             /\ fn.ret.iosBundleId = fn.brand.packageName
             /\ fn.ret.androidPackageName =
                   IF fn.brand.bucket \in {<<"c", "c", "n", "a">>,
                                           <<"a", "s", "v", "a", "b">>}
                   THEN InEdupass(fn.brand.packageName)
                   ELSE fn.brand.packageName
    /\ (fn.op = "fetchAppConfig" /\ fn.pc = "threw")
          => fn.ret = NoConfig /\ (fn.response # "ok" \/ fn.brand.entry # "android")
    /\ (fn.op = "fetchAppConfig" /\ fn.pc # "fetch"
          /\ (fn.response # "ok" \/ fn.brand.entry # "android"))
          => fn.pc = "threw"

\* The app asvab, configured as com.easypass.asvab: Android is asked for
\* com.edupass.asvab, iOS for com.easypass.asvab.
C31_Witness ==
    /\ fn.op = "fetchAppConfig" /\ fn.pc = "return"
    /\ fn.brand.bucket = <<"a", "s", "v", "a", "b">>
    /\ fn.brand.packageName = <<"c", "o", "m", ".", "e", "a", "s", "y", "p", "a", "s", "s",
                                ".", "a", "s", "v", "a", "b">>
    /\ fn.ret.androidPackageName = <<"c", "o", "m", ".", "e", "d", "u", "p", "a", "s", "s",
                                     ".", "a", "s", "v", "a", "b">>
    /\ fn.ret.iosBundleId = fn.brand.packageName

\* C32: with every external call returning or failing in the end, whenever
\* isBuilding is true a state follows in which it is false: the handler
\* never stays busy for good.
C32_LockReleased == isBuilding ~> ~isBuilding

\* A run has set the flag and its build command is running.
C32_Witness ==
    \E r \in Handlers : isBuilding /\ h[r].acquired /\ Executing(r)

\* The text of name between an opening and a closing parenthesis, if the
\* name has such a pair with something in between.
Parentheticals(name) ==
    {SubSeq(name, i + 1, j - 1) :
        <<i, j>> \in {p \in (1..Len(name)) \X (1..Len(name)) :
                         /\ name[p[1]] = "(" /\ name[p[2]] = ")"
                         /\ p[2] > p[1] + 1}}

\* C33: getAndroidVersion reads the first release of the internal track and
\* no other: the versionCode returned is the highest of the codes listed on
\* that release, 0 if it lists none, and the versionName the text inside the
\* parentheses of that release's name, absent if the name has none.
C33_NewestReleaseRead ==
    (LookupReturned("getAndroidVersion") /\ fn.track = "releases")
       => LET first == fn.releases[1]
              codes == {Number(first.versionCodes[k]) : k \in 1..Len(first.versionCodes)}
          IN  /\ fn.ret.found
              /\ fn.ret.versionCode \in codes \cup {0}
              /\ \A c \in codes : fn.ret.versionCode >= c
              /\ codes = {} => fn.ret.versionCode = 0
              /\ Parentheticals(first.name) = {} => fn.ret.versionName = Null
              /\ Parentheticals(first.name) # {}
                    => \E inside \in Parentheticals(first.name) :
                          /\ fn.ret.versionName = Trim(inside)
                          /\ \A other \in Parentheticals(first.name) :
                                Len(other) <= Len(inside)

\* The first release is "11 (1.2.3)" with the codes 10 and 11, a release with
\* code 99 follows it: 1.2.3 and 11 are returned.
C33_Witness ==
    /\ LookupReturned("getAndroidVersion") /\ fn.track = "releases"
    /\ Len(fn.releases) = 2
    /\ fn.releases[1] = [name |-> <<"1", "1", " ", "(", "1", ".", "2", ".", "3", ")">>,
                         versionCodes |-> <<<<"1", "0">>, <<"1", "1">>>>]
    /\ fn.ret = [found |-> TRUE, versionName |-> <<"1", ".", "2", ".", "3">>,
                 versionCode |-> 11]

\* Run r overwrites apps.sh in this step.
WritesFile(r) == ~h[r].wrote /\ h'[r].wrote

\* C34: in one accepted build run the side effects come in a fixed order:
\* the version resolution (if asked for), the overwrite of the script file,
\* the branch checkout (if a branch is given), the build command; the build
\* command is started only after the checkout of a given branch has
\* succeeded, and the file is written with the script rewritten to the
\* resolved version when useLatestVersion is set.
C34_SideEffectOrder ==
    [][\A r \in Handlers :
          /\ h'[r].pc = "getLatestVersionForApps"
                => ~h'[r].wrote /\ h'[r].checkouts = {} /\ ~h'[r].built
          /\ WritesFile(r)
                => /\ h[r].checkouts = {} /\ ~h[r].built
                   /\ h[r].useLatestVersion => h[r].rewritten
                   /\ appsSh' = [script |-> h[r].script, rewritten |-> h[r].rewritten]
          /\ (h'[r].checkouts # h[r].checkouts /\ h'[r].checkouts # {})
                => h'[r].wrote /\ ~h'[r].built
          /\ StartsBuild(r)
                => /\ h'[r].wrote
                   /\ h'[r].branch # NoBranch => h'[r].onBranch # NoBranch]_vars

\* A run with useLatestVersion and the branch main is building: the version
\* was resolved, the rewritten script written, main checked out.
C34_Witness ==
    \E r \in Handlers :
        /\ Executing(r) /\ h[r].built /\ h[r].wrote
        /\ h[r].useLatestVersion /\ h[r].rewritten
        /\ h[r].branch = bMain /\ h[r].onBranch = bMain /\ h[r].checkouts = {bMain}

\* C35: handling a message that is no accepted build (intent none, a
\* check_version request, a build request without script, command or
\* message, a request that ends before it has set the flag) leaves isBuilding
\* as it is, so that it cannot release the lock of a build that is running.
C35_NotAcceptedKeepsFlag ==
    [][rev = "v3" => \A r \in Handlers :
          (Returns(r) /\ ~h'[r].acquired) => isBuilding' = isBuilding]_vars

\* C36: a message written by a bot or posted outside the target channel is
\* ignored altogether: the handler returns at once, with no classifier call,
\* no store or branch query, no file write, no process and no reply, and
\* isBuilding is as before.
C36_FilteredMessageIgnored ==
    [][\A r \in Handlers :
          (h'[r] # h[r] /\ h'[r].out = "Filtered")
             => /\ h[r].pc \in {"idle", "done"}
                /\ h'[r] = [Fresh EXCEPT !.pc = "done", !.out = "Filtered"]
                /\ NoSideEffect(r)'
                /\ isBuilding' = isBuilding
                /\ appsSh' = appsSh]_vars

\* A bot's message was handled and dropped; a build is running and the flag
\* is set.
C36_Witness ==
    \E r \in Handlers, q \in Handlers :
        /\ h[r].pc = "done" /\ h[r].out = "Filtered"
        /\ Executing(q) /\ isBuilding

\* C37: whatever the store records are, the buildNumber getLatestVersionForApps
\* returns is at least 2 and the versionName it returns is neither empty nor
\* absent.
C37_ReturnedVersionUsable ==
    VersionReturned =>
        /\ fn.ret.buildNumber >= 2
        /\ fn.ret.versionName # Null
        /\ Len(fn.ret.versionName) >= 1

\* The call returned after a lookup gave a record with versionCode 0 or with
\* no version name, the records the defaults of incrementVersion are for.
C37_Witness ==
    /\ VersionReturned
    /\ \E i \in 1..Len(fn.results) :
          /\ fn.results[i].found
          /\ fn.results[i].versionCode = 0 \/ fn.results[i].versionName = Null
          /\ ~(fn.results[i].versionCode = 0 /\ fn.results[i].versionName = Null)

SplitReturned == fn.op = "splitMessage" /\ fn.pc = "return"

\* The text is the chunks in order, with at most one newline left out after
\* each chunk.
RECURSIVE Rebuilds(_, _)
Rebuilds(chunks, text) ==
    IF chunks = <<>> THEN text = <<>>
    ELSE LET c == Head(chunks)
             rest == SubSeq(text, Len(c) + 1, Len(text))
         IN  /\ Len(c) <= Len(text)
             /\ SubSeq(text, 1, Len(c)) = c
             /\ \/ Rebuilds(Tail(chunks), rest)
                \/ rest # <<>> /\ rest[1] = "\n" /\ Rebuilds(Tail(chunks), Tail(rest))

RECURSIVE TotalLen(_)
TotalLen(chunks) == IF chunks = <<>> THEN 0 ELSE Len(Head(chunks)) + TotalLen(Tail(chunks))

\* C38: splitMessage returns for every text and every maxLength >= 1; every
\* chunk returned is at most maxLength long, and not empty when the text is
\* not; the chunks in order are the text, but for at most one newline dropped
\* where the text was split.
C38_SplitMessage ==
    /\ <>SplitReturned
    /\ [](SplitReturned =>
            /\ \A i \in 1..Len(fn.chunks) :
                  /\ Len(fn.chunks[i]) <= fn.maxLength
                  /\ fn.text # <<>> => fn.chunks[i] # <<>>
            /\ Rebuilds(fn.chunks, fn.text)
            /\ Len(fn.text) - TotalLen(fn.chunks) <= Len(fn.chunks))

\* A text was split in three or more chunks, a newline was dropped at a split
\* and another split fell where no newline was.
C38_Witness ==
    /\ SplitReturned
    /\ Len(fn.chunks) >= 3
    /\ TotalLen(fn.chunks) < Len(fn.text)
    /\ Len(fn.text) - TotalLen(fn.chunks) < Len(fn.chunks) - 1

====
